---- MODULE Spec2Model ----
(***************************************************************************)
(* git-overlay: the managed link lifecycle (validatePath, the State store, *)
(* CreateLinks / createLink, and the clean command).                       *)
(*                                                                         *)
(* Strings that are paths are modelled as the sequence of their segments,  *)
(* i.e. the string split on "/".  The split is a bijection: "" is <<"">>,  *)
(* "a/b" is <<"a","b">>, "/a" is <<"","a">>, "a//b" is <<"a","","b">>,     *)
(* "a/" is <<"a","">>.  String concatenation x + "/" + y is x \o y.        *)
(***************************************************************************)
EXTENDS Integers, Sequences, FiniteSets, TLC

\* ------------------------------------------------------------------ bounds
\* Longest path (in segments) handed to validatePath in SpecValidate.
MaxPathLen == 4
\* Runs of CreateLinks in one behaviour.
MaxRuns == 1
\* Changes the user makes to the overlay directory in one behaviour.
MaxEdits == 2

\* ---------------------------------------------------------------- binding
\* With(e, LAMBDA v : body) is body with v standing for the value of e
\* (a local variable of the source).
With(v, F(_)) == F(v)

\* ------------------------------------------------------- string primitives
EmptyStr == <<"">>
Dot == <<".">>

Last(s) == s[Len(s)]
Front(s) == SubSeq(s, 1, Len(s) - 1)

\* The segment begins with the two characters "..".
HasDotDotPrefix(seg) == seg \in {"..", "..f"}
\* The segment ends with the two characters "..".
HasDotDotSuffix(seg) == seg \in {"..", "f.."}

\* strings.HasPrefix(s, ".."): the first segment begins with "..".
HasPrefixDotDot(s) == HasDotDotPrefix(s[1])

\* strings.Contains(s, "../"): a segment that is followed by a separator
\* ends with "..".
ContainsDotDotSlash(s) == \E i \in 1..(Len(s) - 1) : HasDotDotSuffix(s[i])

\* strings.TrimPrefix(s, prefix + "/") for a one-segment prefix.
TrimPrefix(s, prefix) ==
    IF Len(s) >= 2 /\ s[1] = prefix THEN Tail(s) ELSE s

\* strings.Count(s, "/")
CountSep(s) == Len(s) - 1

\* ------------------------------------------------------------ path/filepath
\* filepath.IsAbs: the string begins with "/".
IsAbs(p) == Len(p) >= 2 /\ p[1] = ""

\* One element of filepath.Clean's scan: empty and "." elements are
\* skipped, ".." backtracks over a name, is kept in front of a relative
\* path and is dropped at the root, any other element is appended.
CleanStep(out, seg, rooted) ==
    IF seg = "" \/ seg = "." THEN out
    ELSE IF seg = ".."
         THEN IF out # <<>> /\ Last(out) # ".." THEN Front(out)
              ELSE IF rooted THEN out
              ELSE Append(out, "..")
    ELSE Append(out, seg)

RECURSIVE CleanFrom(_, _, _, _)
CleanFrom(p, i, out, rooted) ==
    IF i > Len(p) THEN out
    ELSE CleanFrom(p, i + 1, CleanStep(out, p[i], rooted), rooted)

\* filepath.Clean
Clean(p) ==
    IF p = EmptyStr THEN Dot
    ELSE With(CleanFrom(p, 1, <<>>, IsAbs(p)), LAMBDA out :
            IF IsAbs(p)
            THEN (IF out = <<>> THEN <<"", "">> ELSE <<"">> \o out)
            ELSE (IF out = <<>> THEN Dot ELSE out))

\* filepath.Join of two elements: leading empty elements are ignored, the
\* rest is joined with "/" and cleaned.
Join(a, b) ==
    IF a # EmptyStr THEN Clean(a \o b)
    ELSE IF b # EmptyStr THEN Clean(b)
    ELSE EmptyStr

\* filepath.Join of three elements.
Join3(a, b, c) ==
    IF a # EmptyStr THEN Clean(a \o b \o c)
    ELSE Join(b, c)

\* filepath.Dir: everything before the last separator, cleaned.
Dir(p) ==
    IF Len(p) = 1 THEN Dot ELSE Clean(Append(Front(p), ""))

\* The elements filepath.Rel walks over in the cleaned base: "." counts as
\* the empty base, and the root "/" is the single empty element.
RelComponents(c) ==
    IF c = Dot THEN <<>> ELSE IF c = <<"", "">> THEN <<"">> ELSE c

\* The elements of the cleaned target: only the base is changed from "."
\* to the empty string, so the target "." is the one element ".".
TargComponents(c) ==
    IF c = <<"", "">> THEN <<"">> ELSE c

RECURSIVE CommonPrefixLen(_, _, _)
CommonPrefixLen(b, t, k) ==
    IF k < Len(b) /\ k < Len(t) /\ b[k + 1] = t[k + 1]
    THEN CommonPrefixLen(b, t, k + 1)
    ELSE k

DotDots(n) == [i \in 1..n |-> ".."]

\* filepath.Rel; the result is [err |-> BOOLEAN, rel |-> string].
Rel(basepath, targpath) ==
    With(Clean(basepath), LAMBDA base :
    With(Clean(targpath), LAMBDA targ :
    With(RelComponents(base), LAMBDA b :
    With(TargComponents(targ), LAMBDA t :
    With(CommonPrefixLen(b, t, 0), LAMBDA k :
        IF targ = base THEN [err |-> FALSE, rel |-> Dot]
        ELSE IF IsAbs(base) # IsAbs(targ) THEN [err |-> TRUE, rel |-> EmptyStr]
        ELSE IF k < Len(b) /\ k < Len(t) /\ b[k + 1] = ".."
             THEN [err |-> TRUE, rel |-> EmptyStr]
        ELSE IF k < Len(b)
             THEN [err |-> FALSE,
                   rel |-> DotDots(Len(b) - k) \o SubSeq(t, k + 1, Len(t))]
        ELSE [err |-> FALSE, rel |-> SubSeq(t, k + 1, Len(t))])))))

\* ------------------------------------------------------------ validatePath
\* validatePath without the test of the relative path from base: only the
\* text of path is searched for "../".
validatePathByText(base, path) ==
    IF IsAbs(path) THEN "absolute"
    ELSE IF ContainsDotDotSlash(path) THEN "escape"
    ELSE "ok"

\* cmd/validate.go: "ok", or the error the function returns.
validatePath(base, path) ==
    IF IsAbs(path) THEN "absolute"
    ELSE With(Rel(Clean(base), Clean(Join(base, path))), LAMBDA r :
            IF r.err THEN "invalid"
            ELSE IF HasPrefixDotDot(r.rel) \/ ContainsDotDotSlash(path)
                 THEN "escape"
            ELSE "ok")

\* -------------------------------------------------- internal/config/state.go
\* A ManagedFile is [Path, LinkMode, Source]; State.ManagedFiles is a
\* sequence of them.
WithoutPath(files, path) ==
    SelectSeq(files, LAMBDA mf : mf.Path # path)

\* AddManagedFile without the removal of the entries for the path.
appendOnly(files, path, linkMode, source) ==
    Append(files, [Path |-> path, LinkMode |-> linkMode, Source |-> source])

\* AddManagedFile keeping nothing but the new entry.
onlyNewest(files, path, linkMode, source) ==
    <<[Path |-> path, LinkMode |-> linkMode, Source |-> source]>>

\* State.AddManagedFile: drop every entry for the path, then append.
AddManagedFile(files, path, linkMode, source) ==
    Append(WithoutPath(files, path),
           [Path |-> path, LinkMode |-> linkMode, Source |-> source])

\* RemoveManagedFile emptying the list.
clearAll(files, path) == <<>>

\* State.RemoveManagedFile: drop every entry for the path.
RemoveManagedFile(files, path) == WithoutPath(files, path)

\* State.GetManagedFilesInDir: the entries whose path is dir or whose
\* filepath.Dir is dir.
GetManagedFilesInDir(files, dir) ==
    SelectSeq(files, LAMBDA f : Dir(f.Path) = dir \/ f.Path = dir)

\* The bytes of a path segment (and of a marker line of .gitignore).
NameLen(seg) ==
    CASE seg = "" -> 0
      [] seg \in {".", "c", "d", "e", "f", "g", "m", "x"} -> 1
      [] seg = ".." -> 2
      [] seg \in {"..f", "f.."} -> 3
      [] seg \in {"nowhere", "overlay"} -> 7
      [] seg = ".upstream" -> 9
      [] seg = ".gitignore" -> 10
      [] seg = "# END GIT-OVERLAY MANAGED BLOCK" -> 31
      [] seg = "# BEGIN GIT-OVERLAY MANAGED BLOCK - DO NOT EDIT" -> 47

\* len(s): the segments and the separators between them.
RECURSIVE StrLenFrom(_, _)
StrLenFrom(s, i) ==
    IF i > Len(s) THEN 0
    ELSE NameLen(s[i]) + (IF i < Len(s) THEN 1 ELSE 0) + StrLenFrom(s, i + 1)

StrLen(s) == StrLenFrom(s, 1)

\* The bytes of a value of --link-mode.
ModeLen(linkMode) ==
    CASE linkMode = "copy" -> 4
      [] linkMode \in {"symlink", "invalid"} -> 7
      [] linkMode = "hardlink" -> 8

\* The bytes of one ManagedFile as json.MarshalIndent(s, "", "  ") writes
\* it: the braces, the three keys "path", "linkMode" and "source" with
\* their indentation, and the three values.
EntryBytes(mf) ==
    70 + StrLen(mf.Path) + ModeLen(mf.LinkMode) + StrLen(mf.Source)

RECURSIVE EntriesBytes(_, _)
EntriesBytes(files, i) ==
    IF i > Len(files) THEN 0
    ELSE EntryBytes(files[i]) + (IF i < Len(files) THEN 2 ELSE 1)
         + EntriesBytes(files, i + 1)

\* len(data) in SaveState: "managed_files" is null for the nil slice
\* (isNil), [] for an empty one, and otherwise the indented entries.
StateBytes(files, isNil) ==
    IF files = <<>> THEN (IF isNil THEN 27 ELSE 25)
    ELSE 23 + EntriesBytes(files, 1) + 5

\* The state file .git-overlay.state.json: absent, or a file of `size`
\* bytes that holds the saved list (json) or bytes json.Unmarshal rejects
\* (~json).
NoStateFile == [exists |-> FALSE, json |-> TRUE, files |-> <<>>, size |-> 0]
CorruptStateFile ==
    [exists |-> TRUE, json |-> FALSE, files |-> <<>>, size |-> 1]

\* LoadState with json.Unmarshal accepting any bytes as the empty State.
parsesAnything(sf) == FALSE

\* config.LoadState returns an error: the file is there and does not parse.
LoadStateFails(sf) == sf.exists /\ ~sf.json

\* LoadState returning the empty State whatever the file holds.
loadsNothing(sf) == <<>>

\* config.LoadState: an absent file loads as the empty State.
LoadState(sf) == IF sf.exists THEN sf.files ELSE <<>>

\* The State LoadState returns has a nil ManagedFiles: there is no file,
\* or the file holds null.
LoadsNil(sf) ==
    \/ ~sf.exists
    \/ sf.json /\ sf.files = <<>> /\ sf.size = StateBytes(<<>>, TRUE)

\* State.SaveState: the file holds the whole list.  wasNil tells that
\* ManagedFiles was nil when the State was loaded; it still is when the
\* list is empty.
SaveState(files, wasNil) ==
    [exists |-> TRUE, json |-> TRUE, files |-> files,
     size |-> StateBytes(files, wasNil)]

\* os.WriteFile has opened the file with O_TRUNC and written nothing yet:
\* the file is there, and json.Unmarshal rejects its empty content.
WriteFileOpen(sf) ==
    [exists |-> TRUE, json |-> FALSE, files |-> <<>>, size |-> 0]

\* os.WriteFile writes the marshalled State at offset 0 of the file it
\* opened.  Bytes that are in the file beyond the end of what is written
\* (another process wrote them after the truncation) stay, and
\* json.Unmarshal rejects a document that is followed by them.
WriteFileData(sf, files, wasNil) ==
    IF sf.size > StateBytes(files, wasNil)
    THEN [exists |-> TRUE, json |-> FALSE, files |-> <<>>, size |-> sf.size]
    ELSE SaveState(files, wasNil)

\* ------------------------------------------------------------- file system
\* The working directory is a function from the clean relative paths of
\* the objects that exist to [kind, data]: kind is "dir", "file" or
\* "symlink"; data is the link text of a symlink, the source path whose
\* bytes a linked or copied file holds, <<>> for user content and the
\* empty string for a file of no bytes.
\* Dot, the working directory itself, is always present.
SymlinkHops == 2

DirObj == [kind |-> "dir", data |-> <<>>]
UserFile == [kind |-> "file", data |-> <<>>]

\* q lies strictly beneath directory d.
Under(q, d) ==
    IF d = Dot THEN q # Dot
    ELSE Len(q) > Len(d) /\ SubSeq(q, 1, Len(d)) = d

Child(cur, name) == IF cur = Dot THEN <<name>> ELSE Append(cur, name)

\* Path resolution as the kernel does it: walk the components, following
\* a symlink met on the way (and the last one when followLast).  The
\* result is [err, path]: err is "none", "ENOENT" (the last component is
\* missing), "ENOENT-dir" (a directory on the way is), "ENOTDIR" or "ELOOP".
RECURSIVE Walk(_, _, _, _, _)
Walk(fs, cur, rest, followLast, fuel) ==
    IF rest = <<>> THEN [err |-> "none", path |-> cur]
    ELSE With(Child(cur, Head(rest)), LAMBDA nxt :
         With(Tail(rest), LAMBDA more :
            IF Head(rest) = ".." \/ nxt \notin DOMAIN fs
            THEN [err |-> IF more = <<>> THEN "ENOENT" ELSE "ENOENT-dir",
                  path |-> nxt]
            ELSE IF fs[nxt].kind = "dir"
                 THEN Walk(fs, nxt, more, followLast, fuel)
            ELSE IF fs[nxt].kind = "file"
                 THEN IF more = <<>> THEN [err |-> "none", path |-> nxt]
                      ELSE [err |-> "ENOTDIR", path |-> nxt]
            ELSE IF more = <<>> /\ ~followLast
                 THEN [err |-> "none", path |-> nxt]
            ELSE IF fuel = 0 THEN [err |-> "ELOOP", path |-> nxt]
            ELSE Walk(fs, Dot,
                      RelComponents(Clean(Join(Dir(nxt), fs[nxt].data)
                                          \o more)),
                      followLast, fuel - 1)))

Resolve(fs, p, followLast) ==
    Walk(fs, Dot, RelComponents(p), followLast, SymlinkHops)

\* os.Lstat and os.Stat: [err, kind, path, leaf]; leaf tells whether only
\* the last component is missing.
StatOf(fs, p, followLast) ==
    With(Resolve(fs, p, followLast), LAMBDA r :
        IF r.err = "none"
        THEN [err |-> "none", kind |-> fs[r.path].kind, path |-> r.path,
              leaf |-> TRUE]
        ELSE [err |-> IF r.err = "ENOENT-dir" THEN "ENOENT" ELSE r.err,
              kind |-> "none", path |-> r.path, leaf |-> r.err = "ENOENT"])

Lstat(fs, p) == StatOf(fs, p, FALSE)
Stat(fs, p) == StatOf(fs, p, TRUE)

\* os.IsNotExist(err)
IsNotExist(st) == st.err = "ENOENT"

\* _, err := os.Stat(p); err == nil
Exists(fs, p) == Stat(fs, p).err = "none"

\* os.ReadDir(d): d is opened as os.Stat resolves it, and must be a
\* directory.  The result is [ok, entries]; entries are the paths
\* filepath.Join(d, entry.Name()) of what the directory holds.
ReadDir(fs, d) ==
    With(Stat(fs, d), LAMBDA st :
        IF st.err # "none" \/ st.kind # "dir"
        THEN [ok |-> FALSE, entries |-> {}]
        ELSE [ok |-> TRUE,
              entries |-> {Join(d, <<Last(q)>>) :
                              q \in {e \in DOMAIN fs :
                                        e # Dot /\ Front(e) = RelComponents(st.path)}}])

\* entry.IsDir() of the entry of a listing at path e: the type of the
\* entry itself, a symlink being no directory.
EntryIsDir(fs, e) == Lstat(fs, e).kind = "dir"

Put(fs, p, obj) == (p :> obj) @@ fs
Drop(fs, gone) == [q \in DOMAIN fs \ gone |-> fs[q]] @@ <<>>

\* os.Mkdir: the parent must be a directory and the name free.
Mkdir(fs, p) ==
    With(Stat(fs, Dir(p)), LAMBDA parent :
        IF parent.err = "none" /\ parent.kind = "dir"
           /\ Lstat(fs, p).err = "ENOENT" /\ Last(p) # ".."
        THEN [ok |-> TRUE, fs |-> Put(fs, Child(parent.path, Last(p)), DirObj)]
        ELSE [ok |-> FALSE, fs |-> fs])

\* os.MkdirAll: nothing to do for a directory, an error for another
\* object; otherwise the parent first, then the directory itself.
RECURSIVE MkdirAll(_, _)
MkdirAll(fs, p) ==
    With(Stat(fs, p), LAMBDA st :
        IF st.err = "none"
        THEN [ok |-> st.kind = "dir", fs |-> fs]
        ELSE With(IF Dir(p) = p THEN [ok |-> FALSE, fs |-> fs]
                  ELSE MkdirAll(fs, Dir(p)), LAMBDA up :
                IF ~up.ok THEN up
                ELSE With(Mkdir(up.fs, p), LAMBDA made :
                        IF made.ok THEN made
                        ELSE [ok |-> Lstat(up.fs, p).kind = "dir",
                              fs |-> up.fs])))

\* The first os.Mkdir of os.MkdirAll(p), or its end: [done, ok, fs].
\* MkdirAll is the repetition of this step until done.
RECURSIVE mkdirNext(_, _)
mkdirNext(fs, p) ==
    With(Stat(fs, p), LAMBDA st :
        IF st.err = "none"
        THEN [done |-> TRUE, ok |-> st.kind = "dir", fs |-> fs]
        ELSE IF Dir(p) = p THEN [done |-> TRUE, ok |-> FALSE, fs |-> fs]
        ELSE With(mkdirNext(fs, Dir(p)), LAMBDA up :
                IF ~up.done \/ ~up.ok THEN up
                ELSE With(Mkdir(fs, p), LAMBDA made :
                        IF made.ok
                        THEN [done |-> FALSE, ok |-> TRUE, fs |-> made.fs]
                        ELSE [done |-> TRUE,
                              ok |-> Lstat(fs, p).kind = "dir",
                              fs |-> fs])))

\* os.Remove: a file, a symlink or an empty directory; an object in
\* `locked` cannot be unlinked.
Remove(fs, locked, p) ==
    With(Lstat(fs, p), LAMBDA st :
        IF st.err # "none" \/ st.path \in locked
           \/ (st.kind = "dir" /\ ReadDir(fs, st.path).entries # {})
        THEN [ok |-> FALSE, fs |-> fs]
        ELSE [ok |-> TRUE, fs |-> Drop(fs, {st.path})])

\* os.RemoveAll: a path whose last element is "." is refused (EINVAL);
\* otherwise the tree is removed bottom-up, leaving what cannot be
\* unlinked and the directories above it; an absent path is no error.
RemoveAll(fs, locked, p) ==
    With(Lstat(fs, p), LAMBDA st :
        IF Last(p) = "." THEN [ok |-> FALSE, fs |-> fs]
        ELSE IF st.err # "none" THEN [ok |-> st.err = "ENOENT", fs |-> fs]
        ELSE With({q \in DOMAIN fs :
                      /\ q = st.path \/ Under(q, st.path)
                      /\ \E l \in locked : l = q \/ Under(l, q)},
                  LAMBDA stuck :
                [ok |-> stuck = {},
                 fs |-> Drop(fs, {q \in DOMAIN fs \ stuck :
                                     q = st.path \/ Under(q, st.path)})]))

\* os.Symlink: the name must be free.
Symlink(fs, text, dst) ==
    With(Stat(fs, Dir(dst)), LAMBDA parent :
        IF parent.err = "none" /\ parent.kind = "dir"
           /\ Lstat(fs, dst).err = "ENOENT"
        THEN [ok |-> TRUE,
              fs |-> Put(fs, Child(parent.path, Last(dst)),
                         [kind |-> "symlink", data |-> text])]
        ELSE [ok |-> FALSE, fs |-> fs])

\* os.Link: the source must be a non-directory and the name free.
Link(fs, src, dst) ==
    With(Lstat(fs, src), LAMBDA from :
    With(Stat(fs, Dir(dst)), LAMBDA parent :
        IF from.err = "none" /\ from.kind # "dir"
           /\ parent.err = "none" /\ parent.kind = "dir"
           /\ Lstat(fs, dst).err = "ENOENT"
        THEN [ok |-> TRUE,
              fs |-> Put(fs, Child(parent.path, Last(dst)),
                         [kind |-> fs[from.path].kind,
                          data |-> IF fs[from.path].kind = "file"
                                   THEN src ELSE fs[from.path].data])]
        ELSE [ok |-> FALSE, fs |-> fs]))

\* A file of no bytes: what os.Create leaves before anything is written.
Truncated == [kind |-> "file", data |-> EmptyStr]

\* The file copyFile leaves at the object `fd` that os.Create opened: the
\* bytes of src, or no bytes when reading src fails (src is a directory)
\* or when os.Create truncated the very file src names.
copied(from, fd, src) ==
    IF from.kind = "dir" \/ from.path = fd THEN Truncated
    ELSE [kind |-> "file", data |-> src]

\* No object of the working directory: the file a descriptor names has
\* been unlinked.
NoFd == <<>>

\* copyFile, first part: os.Open(src), then os.Create(dst), which follows
\* a symlink at dst and truncates what is there.  The result is [ok, fs,
\* fd]; fd is the object the descriptor names.
copyCreate(fs, src, dst) ==
    With(Stat(fs, src), LAMBDA from :
    With(Stat(fs, dst), LAMBDA to :
        IF from.err # "none" THEN [ok |-> FALSE, fs |-> fs, fd |-> NoFd]
        ELSE IF to.err = "none"
             THEN IF to.kind = "dir"
                  THEN [ok |-> FALSE, fs |-> fs, fd |-> NoFd]
                  ELSE [ok |-> TRUE, fs |-> Put(fs, to.path, Truncated),
                        fd |-> to.path]
        ELSE IF to.err = "ENOENT" /\ to.leaf /\ Last(to.path) # ".."
                /\ Stat(fs, Dir(to.path)).kind = "dir"
             THEN [ok |-> TRUE, fs |-> Put(fs, to.path, Truncated),
                   fd |-> to.path]
        ELSE [ok |-> FALSE, fs |-> fs, fd |-> NoFd]))

\* copyFile, second part: dstFile.ReadFrom(srcFile).  Reading a directory
\* fails; the bytes go to the file the descriptor names, which is in the
\* working directory unless it has been unlinked.
copyFill(fs, src, fd) ==
    With(Stat(fs, src), LAMBDA from :
        [ok |-> from.kind # "dir",
         fs |-> IF fd \in DOMAIN fs
                THEN Put(fs, fd, copied(from, fd, src)) ELSE fs])

\* copyFile, third part: os.Stat(src), then os.Chmod(dst, mode).
copyChmod(fs, src, dst) ==
    [ok |-> Exists(fs, src) /\ Exists(fs, dst), fs |-> fs]

\* copyFile: the three parts, each run when the one before succeeded.
copyFile(fs, src, dst) ==
    With(copyCreate(fs, src, dst), LAMBDA c :
        IF ~c.ok THEN [ok |-> FALSE, fs |-> c.fs]
        ELSE With(copyFill(c.fs, src, c.fd), LAMBDA w :
                IF ~w.ok THEN w ELSE copyChmod(w.fs, src, dst)))

\* ------------------------------------------------------------ string order
\* Every segment name the lifecycle uses, in byte order.
NameOrder ==
    <<".", "..", ".gitignore", ".upstream", "c", "d", "e", "f", "g", "m",
      "nowhere", "overlay", "x">>

Rank(name) == CHOOSE i \in 1..Len(NameOrder) : NameOrder[i] = name

\* Name s is the beginning of the longer name t: of the names above only
\* "." begins other names.
IsNamePrefix(s, t) == s = "." /\ t \in {"..", ".gitignore", ".upstream"}

\* The byte of t that follows its leading "." sorts below the separator
\* "/" (0x2f): "." (0x2e) does, a letter does not.
BelowSeparator(t) == t = ".."

\* The strings are compared byte by byte.  Two different segments decide
\* by their own bytes unless one begins the other: then the string that
\* ends there is the smaller, and otherwise the separator that follows
\* the shorter segment is compared with the next byte of the longer.
RECURSIVE StrLessFrom(_, _, _)
StrLessFrom(a, b, i) ==
    IF i > Len(a) THEN i <= Len(b)
    ELSE IF i > Len(b) THEN FALSE
    ELSE IF a[i] = b[i] THEN StrLessFrom(a, b, i + 1)
    ELSE IF IsNamePrefix(a[i], b[i])
         THEN i = Len(a) \/ ~BelowSeparator(b[i])
    ELSE IF IsNamePrefix(b[i], a[i])
         THEN i < Len(b) /\ BelowSeparator(a[i])
    ELSE Rank(a[i]) < Rank(b[i])

\* a < b as Go compares strings.
StrLess(a, b) == StrLessFrom(a, b, 1)

\* A finite set of strings as the sequence ordered by less (a total order).
SortBy(set, less(_, _)) ==
    [i \in 1..Cardinality(set) |->
        CHOOSE x \in set : Cardinality({y \in set : less(y, x)}) = i - 1]

\* ------------------------------------------------------- cmd: createLink
Overlay == <<"overlay">>
Upstream == <<".upstream">>

\* No segment counts as ending with ".gitignore".
noIgnoreFile(seg) == FALSE

\* The segment ends with ".gitignore".
HasGitignoreSuffix(seg) == seg \in {".gitignore"}

\* strings.HasSuffix(dst, ".gitignore")
HasSuffixGitignore(dst) == HasGitignoreSuffix(Last(dst))

\* The walk of createLink and CreateLinks carries [fs, files, created,
\* err]: the file system, State.ManagedFiles, createdLinks, and "" or the
\* error that ended it.
Fail(ctx, fs, err) == [ctx EXCEPT !.fs = fs, !.err = err]

\* The bookkeeping of a created link: createdLinks and the State entry.
Track(ctx, fs, src, dst, linkMode) ==
    [ctx EXCEPT !.fs = fs,
                !.created = Append(@, dst),
                !.files = AddManagedFile(@, TrimPrefix(dst, "overlay"),
                                         linkMode,
                                         TrimPrefix(src, ".upstream"))]

\* The link itself, per link mode (the switch of createLink).
makeLink(ctx, fs, locked, src, dst, linkMode) ==
    IF HasSuffixGitignore(dst)
    THEN With(copyFile(fs, src, dst), LAMBDA c :
            IF c.ok THEN Track(ctx, c.fs, src, dst, "copy")
            ELSE Fail(ctx, c.fs, "failed to copy .gitignore"))
    ELSE IF linkMode = "symlink"
    THEN With(Rel(Dir(dst), src), LAMBDA r :
            IF r.err THEN Fail(ctx, fs, "failed to create relative path")
            ELSE With(Symlink(fs, r.rel, dst), LAMBDA l :
                    IF l.ok THEN Track(ctx, l.fs, src, dst, linkMode)
                    ELSE Fail(ctx, l.fs, "failed to create symlink")))
    ELSE IF linkMode = "hardlink"
    THEN With(Link(fs, src, dst), LAMBDA l :
            IF l.ok THEN Track(ctx, l.fs, src, dst, linkMode)
            ELSE Fail(ctx, l.fs, "failed to create hardlink"))
    ELSE IF linkMode = "copy"
    THEN With(copyFile(fs, src, dst), LAMBDA c :
            IF c.ok THEN Track(ctx, c.fs, src, dst, linkMode)
            ELSE Fail(ctx, c.fs, "failed to copy"))
    ELSE Fail(ctx, fs, "unsupported link mode")

\* The path createLink hands to validatePath.
validatedTarget(dst) == TrimPrefix(dst, "overlay")

\* createLink: validate, make the parent directory, deal with an existing
\* target, then link.
createLink(ctx, locked, src, dst, linkMode, force) ==
    IF validatePath(Overlay, validatedTarget(dst)) # "ok"
    THEN Fail(ctx, ctx.fs, "invalid target path")
    ELSE With(MkdirAll(ctx.fs, Dir(dst)), LAMBDA md :
            IF ~md.ok THEN Fail(ctx, md.fs, "failed to create directory")
            ELSE IF ~Exists(md.fs, dst)
                 THEN makeLink(ctx, md.fs, locked, src, dst, linkMode)
            ELSE IF ~force THEN Fail(ctx, md.fs, "target already exists")
            ELSE With(Remove(md.fs, locked, dst), LAMBDA rm :
                    IF ~rm.ok
                    THEN Fail(ctx, md.fs, "failed to remove existing target")
                    ELSE makeLink(ctx, rm.fs, locked, src, dst, linkMode)))

\* ------------------------------------------------------ cmd: CreateLinks
\* A SymlinkSpec is [String, From, To]; the string form sets all three.
\* "Skip directories themselves": info.IsDir() in the callback.
skipsDirectory(info) == info.kind = "dir"

\* The callback CreateLinks gives to filepath.Walk: an error of the walk
\* is returned, a directory is skipped, and anything else is linked at
\* its path relative to from beneath the target base.
walkFn(ctx, locked, from, targetBase, path, info, linkMode, force) ==
    IF info.err # "none"
    THEN Fail(ctx, ctx.fs, "failed to process directory")
    ELSE IF skipsDirectory(info) THEN ctx
    ELSE With(Rel(from, path), LAMBDA r :
            IF r.err THEN Fail(ctx, ctx.fs, "failed to get relative path")
            ELSE createLink(ctx, locked, path,
                            Join3(Overlay, targetBase, r.rel),
                            linkMode, force))

\* The names of a directory in lexical order, as the paths
\* filepath.Join(path, name).
readDirNames(fs, path) == SortBy(ReadDir(fs, path).entries, StrLess)

\* The recursion of filepath.Walk.  A non-directory goes to the callback.
\* A directory is listed when it is entered, goes to the callback, and
\* then each name of the listing is examined with Lstat in the file
\* system as the callbacks so far have left it.
RECURSIVE walk(_, _, _, _, _, _, _, _)
RECURSIVE walkNames(_, _, _, _, _, _, _, _)
walkNames(ctx, locked, from, targetBase, names, i, linkMode, force) ==
    IF i > Len(names) \/ ctx.err # "" THEN ctx
    ELSE With(Lstat(ctx.fs, names[i]), LAMBDA fileInfo :
            walkNames(IF fileInfo.err # "none"
                      THEN walkFn(ctx, locked, from, targetBase, names[i],
                                  fileInfo, linkMode, force)
                      ELSE walk(ctx, locked, from, targetBase, names[i],
                                fileInfo, linkMode, force),
                      locked, from, targetBase, names, i + 1,
                      linkMode, force))

walk(ctx, locked, from, targetBase, path, info, linkMode, force) ==
    IF info.kind # "dir"
    THEN walkFn(ctx, locked, from, targetBase, path, info, linkMode, force)
    ELSE IF ~ReadDir(ctx.fs, path).ok
    THEN Fail(ctx, ctx.fs, "failed to process directory")
    ELSE With(readDirNames(ctx.fs, path), LAMBDA names :
         With(walkFn(ctx, locked, from, targetBase, path, info,
                     linkMode, force), LAMBDA entered :
            IF entered.err # "" THEN entered
            ELSE walkNames(entered, locked, from, targetBase, names, 1,
                           linkMode, force)))

\* filepath.Walk(from, callback): the root is examined with Lstat; a root
\* that cannot be examined goes to the callback with the error.
filepathWalk(ctx, locked, from, targetBase, linkMode, force) ==
    With(Lstat(ctx.fs, from), LAMBDA info :
        IF info.err # "none"
        THEN walkFn(ctx, locked, from, targetBase, from, info,
                    linkMode, force)
        ELSE walk(ctx, locked, from, targetBase, from, info,
                  linkMode, force))

\* The pattern and the target base of a mapping.
patternOf(link) ==
    IF link.String # EmptyStr THEN link.String ELSE link.From

targetBaseOf(link) ==
    IF link.String # EmptyStr THEN link.String ELSE link.To

\* One iteration of the loop over cfg.Symlinks.
linkOne(ctx, locked, link, linkMode, force) ==
    With(Join(Upstream, patternOf(link)), LAMBDA from :
    With(Stat(ctx.fs, from), LAMBDA info :
        IF info.err # "none" THEN Fail(ctx, ctx.fs, "source does not exist")
        ELSE IF info.kind = "dir"
             THEN filepathWalk(ctx, locked, from, targetBaseOf(link),
                               linkMode, force)
        ELSE createLink(ctx, locked, from,
                        Join(Overlay, targetBaseOf(link)), linkMode, force)))

RECURSIVE linkAll(_, _, _, _, _, _)
linkAll(ctx, locked, symlinks, i, linkMode, force) ==
    IF i > Len(symlinks) \/ ctx.err # "" THEN ctx
    ELSE linkAll(linkOne(ctx, locked, symlinks[i], linkMode, force),
                 locked, symlinks, i + 1, linkMode, force)

\* updateGitignore: the file as its lines (the content split on "\n").
BeginMarker == <<"# BEGIN GIT-OVERLAY MANAGED BLOCK - DO NOT EDIT">>
EndMarker == <<"# END GIT-OVERLAY MANAGED BLOCK">>
NoGitignore == [exists |-> FALSE, lines |-> <<>>]

RECURSIVE outsideBlock(_, _, _)
outsideBlock(lines, i, inManagedBlock) ==
    IF i > Len(lines) THEN <<>>
    ELSE IF lines[i] = BeginMarker THEN outsideBlock(lines, i + 1, TRUE)
    ELSE IF lines[i] = EndMarker THEN outsideBlock(lines, i + 1, FALSE)
    ELSE IF inManagedBlock THEN outsideBlock(lines, i + 1, inManagedBlock)
    ELSE <<lines[i]>> \o outsideBlock(lines, i + 1, inManagedBlock)

\* The managed block: the markers around the created links.
managedBlock(createdLinks) == <<BeginMarker>> \o createdLinks \o <<EndMarker>>

\* updateGitignore appending the block to the file as it is.
appendBlock(gi, createdLinks) ==
    [exists |-> TRUE, lines |-> gi.lines \o managedBlock(createdLinks)]

updateGitignore(gi, createdLinks) ==
    IF ~gi.exists
    THEN [exists |-> TRUE, lines |-> managedBlock(createdLinks)]
    ELSE With(outsideBlock(gi.lines, 1, FALSE), LAMBDA newLines :
            [exists |-> TRUE,
             lines |-> (IF Len(newLines) > 0 /\ Last(newLines) # EmptyStr
                        THEN Append(newLines, EmptyStr) ELSE newLines)
                       \o managedBlock(createdLinks)])

\* The decimal digits of a byte offset within a line.
Offsets ==
    <<"0", "1", "2", "3", "4", "5", "6", "7", "8", "9", "10", "11", "12",
      "13", "14", "15", "16", "17", "18", "19", "20", "21", "22", "23", "24",
      "25", "26", "27", "28", "29", "30", "31", "32", "33", "34", "35", "36",
      "37", "38", "39", "40", "41", "42", "43", "44", "45", "46", "47">>

\* A line that two writes made: the text of line a, followed without a
\* separator by line b from its byte k on.
TornLine(a, b, k) == a \o <<"+">> \o b \o <<"@", Offsets[k + 1]>>

IsTornLine(line) == \E i \in 1..Len(line) : line[i] = "+"

\* len(line)
RECURSIVE LineLen(_)
LineLen(line) ==
    IF ~IsTornLine(line) THEN StrLen(line)
    ELSE With(CHOOSE i \in 1..Len(line) :
                 line[i] = "+" /\ \A j \in 1..(i - 1) : line[j] # "+",
              LAMBDA cut :
            StrLen(SubSeq(line, 1, cut - 1))
            + LineLen(SubSeq(line, cut + 1, Len(line) - 2))
            - ((CHOOSE n \in 1..Len(Offsets) :
                   Offsets[n] = line[Len(line)]) - 1))

\* The bytes of a file of these lines: the lines and the "\n" between.
RECURSIVE LinesLen(_, _)
LinesLen(lines, i) ==
    IF i > Len(lines) THEN 0
    ELSE LineLen(lines[i]) + (IF i < Len(lines) THEN 1 ELSE 0)
         + LinesLen(lines, i + 1)

\* The line of the file that holds the byte at offset off (or ends
\* there), and the offset within that line: [j, k].
RECURSIVE lineAt(_, _, _)
lineAt(lines, j, off) ==
    IF off <= LineLen(lines[j]) THEN [j |-> j, k |-> off]
    ELSE lineAt(lines, j + 1, off - LineLen(lines[j]) - 1)

\* os.WriteFile has opened .gitignore with O_TRUNC|O_CREATE and written
\* nothing yet: a file of no bytes, which splits into one empty line.
truncatedGitignore(gi) == [exists |-> TRUE, lines |-> <<EmptyStr>>]

\* os.WriteFile writes the lines at offset 0 of the file it opened.  Bytes
\* that are in the file beyond the end of what is written (another process
\* wrote them after the truncation) stay: the last line written runs into
\* the line that was cut.
writeGitignore(gi, lines) ==
    IF LinesLen(gi.lines, 1) <= LinesLen(lines, 1)
    THEN [exists |-> TRUE, lines |-> lines]
    ELSE With(lineAt(gi.lines, 1, LinesLen(lines, 1)), LAMBDA at :
            [exists |-> TRUE,
             lines |-> Front(lines)
                       \o <<IF at.k = LineLen(gi.lines[at.j])
                            THEN Last(lines)
                            ELSE TornLine(Last(lines), gi.lines[at.j], at.k)>>
                       \o SubSeq(gi.lines, at.j + 1, Len(gi.lines))])

\* CreateLinks: load the State, walk cfg.Symlinks, and only when every
\* link succeeded refresh .gitignore and save the State.  The result is
\* [fs, stateFile, gitignore, err, created, files].
CreateLinks(fs, sf, gi, locked, symlinks, linkMode, force) ==
    IF LoadStateFails(sf)
    THEN [fs |-> fs, stateFile |-> sf, gitignore |-> gi,
          err |-> "failed to load state", created |-> <<>>, files |-> <<>>]
    ELSE
    With(linkAll([fs |-> fs, files |-> LoadState(sf), created |-> <<>>,
                  err |-> ""],
                 locked, symlinks, 1, linkMode, force), LAMBDA ctx :
        IF ctx.err # ""
        THEN [fs |-> ctx.fs, stateFile |-> sf, gitignore |-> gi,
              err |-> ctx.err, created |-> ctx.created, files |-> ctx.files]
        ELSE [fs |-> ctx.fs, stateFile |-> SaveState(ctx.files, LoadsNil(sf)),
              gitignore |-> updateGitignore(gi, ctx.created),
              err |-> "", created |-> ctx.created, files |-> ctx.files])

\* ------------------------------------------------------------ cmd: clean
\* The comparator of sort.Slice in cleanCmd: deeper first, and among
\* paths of one depth the greater string first.
\* The comparator with the depths compared the other way round.
shallowFirst(a, b) ==
    IF CountSep(a) = CountSep(b) THEN StrLess(b, a)
    ELSE CountSep(a) < CountSep(b)

cleanLess(a, b) ==
    IF CountSep(a) = CountSep(b) THEN StrLess(b, a)
    ELSE CountSep(a) > CountSep(b)

sortedPaths(managedPaths) == SortBy(managedPaths, cleanLess)

\* A directory counts as fully managed whatever it holds.
anyDirectory(fs, path, managedPaths) == Stat(fs, path).kind = "dir"

\* isFullyManaged: every entry of the directory is a managed path, and so
\* is everything in its sub-directories.
RECURSIVE isFullyManaged(_, _, _)
isFullyManaged(fs, path, managedPaths) ==
    /\ ReadDir(fs, path).ok
    /\ \A entryPath \in ReadDir(fs, path).entries :
          With(Rel(Overlay, entryPath), LAMBDA r :
             /\ ~r.err
             /\ r.rel \in managedPaths
             /\ (EntryIsDir(fs, entryPath)
                    => isFullyManaged(fs, entryPath, managedPaths)))

\* The sub-directories of dir, in the order os.ReadDir lists them.
subdirsOf(fs, dir) ==
    SortBy({e \in ReadDir(fs, dir).entries : EntryIsDir(fs, e)}, StrLess)

\* removeEmptyDirs: the sub-directories first, then the directory itself
\* when a second listing finds it empty; "overlay" is never removed.
\* The result is [ok, fs].
RECURSIVE removeEmptyDirs(_, _, _)
RECURSIVE pruneSubdirs(_, _, _, _)
pruneSubdirs(fs, locked, subdirs, i) ==
    IF i > Len(subdirs) THEN [ok |-> TRUE, fs |-> fs]
    ELSE With(removeEmptyDirs(fs, locked, subdirs[i]), LAMBDA sub :
            IF ~sub.ok THEN sub
            ELSE pruneSubdirs(sub.fs, locked, subdirs, i + 1))

\* removeEmptyDirs deciding by the listing taken before the sub-directories
\* were pruned.
removeEmptyDirsOnce(fs, locked, dir) ==
    IF ~ReadDir(fs, dir).ok THEN [ok |-> FALSE, fs |-> fs]
    ELSE With(pruneSubdirs(fs, locked, subdirsOf(fs, dir), 1), LAMBDA below :
            IF ~below.ok THEN below
            ELSE IF ReadDir(fs, dir).entries = {} /\ dir # Overlay
                 THEN Remove(below.fs, locked, dir)
            ELSE below)

\* removeEmptyDirs taking a directory that holds no directory for empty.
removeLeafDirs(fs, locked, dir) ==
    IF ~ReadDir(fs, dir).ok THEN [ok |-> FALSE, fs |-> fs]
    ELSE With(pruneSubdirs(fs, locked, subdirsOf(fs, dir), 1), LAMBDA below :
            IF ~below.ok THEN below
            ELSE IF subdirsOf(below.fs, dir) = <<>> /\ dir # Overlay
                 THEN RemoveAll(below.fs, locked, dir)
            ELSE below)

\* No pruning at all.
noPruning(fs, locked, dir) == [ok |-> TRUE, fs |-> fs]

removeEmptyDirs(fs, locked, dir) ==
    IF ~ReadDir(fs, dir).ok THEN [ok |-> FALSE, fs |-> fs]
    ELSE With(pruneSubdirs(fs, locked, subdirsOf(fs, dir), 1), LAMBDA below :
            IF ~below.ok THEN below
            ELSE IF ~ReadDir(below.fs, dir).ok
                 THEN [ok |-> FALSE, fs |-> below.fs]
            ELSE IF ReadDir(below.fs, dir).entries = {} /\ dir # Overlay
                 THEN Remove(below.fs, locked, dir)
            ELSE below)

\* The orders in which Readdirnames may give the entries of a directory:
\* the order of a directory is that of the file system, any one.
Orders(entries) ==
    {order \in [1..Cardinality(entries) -> entries] :
        \A i, j \in 1..Cardinality(entries) : order[i] = order[j] => i = j}

\* os.RemoveAll(p) at its start: a path whose last element is "." is
\* refused (EINVAL) and an absent path is no error, both without a call
\* that changes anything; otherwise the object at p is what it has to
\* remove.  The result is the work it has still to do: the objects to
\* unlink, in order, and for a directory whose entries have been dealt
\* with (emptied) the rmdir.
removeAllBegin(fs, p) ==
    With(Lstat(fs, p), LAMBDA st :
        IF Last(p) = "." \/ st.err # "none" THEN <<>>
        ELSE <<[path |-> st.path, emptied |-> FALSE]>>)

\* What os.RemoveAll(p) returns when it has nothing left to do: nil when
\* the path is gone.
removeAllOk(fs, p) == Last(p) # "." /\ Lstat(fs, p).err = "ENOENT"

\* One call of os.RemoveAll: the unlink of the next object, which fails
\* for a locked one and is no error for an absent one; for a directory
\* the listing of its entries, which are removed in the order listed, each
\* with all it holds, before the directory itself; and the rmdir of a
\* directory whose entries have been dealt with, which fails when one of
\* them is still there.  A failure is kept for the return, and the
\* removal goes on.  The result is the set of the [agenda, fs] the call
\* may leave, one for each order of a listing.
removeAllNext(fs, locked, agenda) ==
    With(Head(agenda), LAMBDA item :
        IF item.path \notin DOMAIN fs
        THEN {[agenda |-> Tail(agenda), fs |-> fs]}
        ELSE IF item.emptied \/ fs[item.path].kind # "dir"
        THEN {[agenda |-> Tail(agenda),
               fs |-> Remove(fs, locked, item.path).fs]}
        ELSE {[agenda |-> [i \in 1..Len(order) |->
                              [path |-> order[i], emptied |-> FALSE]]
                          \o <<[path |-> item.path, emptied |-> TRUE]>>
                          \o Tail(agenda),
               fs |-> fs] :
                 order \in Orders(ReadDir(fs, item.path).entries)})

\* The first os.Remove of removeEmptyDirs(dir), or its end: [done, ok,
\* fs].  removeEmptyDirs is the repetition of this step until done; a
\* Remove that fails ends it with the error.
RECURSIVE pruneNext(_, _, _)
RECURSIVE pruneNextIn(_, _, _, _)
pruneNextIn(fs, locked, subdirs, i) ==
    IF i > Len(subdirs) THEN [done |-> TRUE, ok |-> TRUE, fs |-> fs]
    ELSE With(pruneNext(fs, locked, subdirs[i]), LAMBDA sub :
            IF ~sub.done \/ ~sub.ok THEN sub
            ELSE pruneNextIn(fs, locked, subdirs, i + 1))

pruneNext(fs, locked, dir) ==
    IF ~ReadDir(fs, dir).ok THEN [done |-> TRUE, ok |-> FALSE, fs |-> fs]
    ELSE With(pruneNextIn(fs, locked, subdirsOf(fs, dir), 1), LAMBDA below :
            IF ~below.done \/ ~below.ok THEN below
            ELSE IF ReadDir(fs, dir).entries = {} /\ dir # Overlay
                 THEN With(Remove(fs, locked, dir), LAMBDA rm :
                         [done |-> ~rm.ok, ok |-> rm.ok, fs |-> rm.fs])
            ELSE below)

\* A managed path dropped from the State with its object left in place.
forgetOne(ctx, locked, relPath, managedPaths) ==
    [ctx EXCEPT !.files = RemoveManagedFile(@, relPath)]

\* One managed path of the loop of cleanCmd.  ctx is [fs, files, removed,
\* err]; an Lstat error other than "does not exist" leaves info nil, and
\* info.IsDir() then panics.
cleanOne(ctx, locked, relPath, managedPaths) ==
    With(Lstat(ctx.fs, Join(Overlay, relPath)), LAMBDA info :
        IF IsNotExist(info)
        THEN [ctx EXCEPT !.files = RemoveManagedFile(@, relPath)]
        ELSE IF info.err # "none" THEN [ctx EXCEPT !.err = "panic"]
        ELSE IF info.kind # "dir"
             THEN With(Remove(ctx.fs, locked, Join(Overlay, relPath)),
                       LAMBDA rm :
                     [ctx EXCEPT !.fs = rm.fs,
                                 !.files = RemoveManagedFile(@, relPath),
                                 !.removed = IF rm.ok THEN @ + 1 ELSE @])
        ELSE IF isFullyManaged(ctx.fs, Join(Overlay, relPath), managedPaths)
             THEN With(RemoveAll(ctx.fs, locked, Join(Overlay, relPath)),
                       LAMBDA rmAll :
                     [ctx EXCEPT !.fs = rmAll.fs,
                                 !.files = RemoveManagedFile(@, relPath),
                                 !.removed = IF rmAll.ok THEN @ + 1 ELSE @])
        ELSE ctx)

RECURSIVE cleanLoop(_, _, _, _, _)
cleanLoop(ctx, locked, paths, i, managedPaths) ==
    IF i > Len(paths) \/ ctx.err # "" THEN ctx
    ELSE cleanLoop(cleanOne(ctx, locked, paths[i], managedPaths),
                   locked, paths, i + 1, managedPaths)

\* The final cleanup left out.
keepAll(files, paths, i) == files

\* "Final cleanup": every managed path leaves the State.
RECURSIVE dropAll(_, _, _)
dropAll(files, paths, i) ==
    IF i > Len(paths) THEN files
    ELSE dropAll(RemoveManagedFile(files, paths[i]), paths, i + 1)

\* The tail of cleanCmd.RunE, after the loop: the final cleanup, the
\* pruning of empty directories, and the save.
cleanFinish(ctx, sf, locked, paths) ==
    IF ctx.err # ""
    THEN [fs |-> ctx.fs, stateFile |-> sf, removed |-> ctx.removed,
          err |-> ctx.err]
    ELSE With(removeEmptyDirs(ctx.fs, locked, Overlay), LAMBDA pruned :
            IF ~pruned.ok
            THEN [fs |-> pruned.fs, stateFile |-> sf,
                  removed |-> ctx.removed,
                  err |-> "failed to clean up empty directories"]
            ELSE [fs |-> pruned.fs,
                  stateFile |-> SaveState(dropAll(ctx.files, paths, 1),
                                         LoadsNil(sf)),
                  removed |-> ctx.removed, err |-> ""])

\* The paths of the managed files of a State.
pathsOf(loaded) == {loaded[i].Path : i \in 1..Len(loaded)}

\* cleanCmd.RunE without the test of the overlay directory.
cleanUnchecked(fs, sf, locked) ==
    IF LoadStateFails(sf)
    THEN [fs |-> fs, stateFile |-> sf, removed |-> 0,
          err |-> "failed to load state"]
    ELSE With(sortedPaths(pathsOf(LoadState(sf))), LAMBDA paths :
            cleanFinish(cleanLoop([fs |-> fs, files |-> LoadState(sf),
                                   removed |-> 0, err |-> ""],
                                  locked, paths, 1, pathsOf(LoadState(sf))),
                        sf, locked, paths))

\* cleanCmd.RunE.  The result is [fs, stateFile, err, removed].
cleanRun(fs, sf, locked) ==
    IF IsNotExist(Stat(fs, Overlay))
    THEN [fs |-> fs, stateFile |-> sf, removed |-> 0,
          err |-> "overlay directory does not exist"]
    ELSE IF LoadStateFails(sf)
    THEN [fs |-> fs, stateFile |-> sf, removed |-> 0,
          err |-> "failed to load state"]
    ELSE With(sortedPaths(pathsOf(LoadState(sf))), LAMBDA paths :
            cleanFinish(cleanLoop([fs |-> fs, files |-> LoadState(sf),
                                   removed |-> 0, err |-> ""],
                                  locked, paths, 1, pathsOf(LoadState(sf))),
                        sf, locked, paths))

\* ------------------------------------------ the commands, call by call
\* CreateLinks, cleanCmd.RunE and syncCmd.RunE as the processes they are:
\* a step is one system call that changes the working directory, or one
\* test that decides what the command does next.  The record of a process
\* holds the command (op), the place it stands at (pc), the loop index (i),
\* createdLinks, the counter of clean, the sorted managed paths and their
\* set, whether LoadState has returned and SaveState has returned (loaded,
\* saved) and whether the State loaded was nil (wasNil), the directory
\* mapping filepath.Walk is in (from, base) and the paths it has still to
\* visit, or what os.RemoveAll has still to remove (agenda), the
\* arguments of the createLink or the os.RemoveAll in progress (src, dst),
\* the file copyFile has open (fd), and the lines updateGitignore is
\* about to write (pending).
Resting ==
    [op |-> "none", pc |-> "idle", err |-> "", i |-> 0, created |-> <<>>,
     removed |-> 0, paths |-> <<>>, managed |-> {}, loaded |-> FALSE,
     saved |-> FALSE, wasNil |-> FALSE, from |-> EmptyStr, base |-> EmptyStr,
     agenda |-> <<>>, src |-> EmptyStr, dst |-> EmptyStr, fd |-> NoFd,
     pending |-> <<>>]

\* CreateLinks saving the State before it refreshes .gitignore.
saveBeforeRefresh(pc) ==
    CASE pc = "linking" -> "saving"
      [] pc = "saving" -> "writing"
      [] pc = "writing" -> "ignoring"
      [] pc = "ignoring" -> "ignoreOpen"
      [] pc = "ignoreOpen" -> "ignoreWrite"
      [] pc = "cleaning" -> "pruning"
      [] pc = "pruning" -> "saving"
      [] pc = "resetting" -> "resetOpen"
      [] pc = "resetOpen" -> "resetWrite"
      [] pc = "resetWrite" -> "loading"
      [] OTHER -> "idle"

\* The statement that follows, in CreateLinks (the loop over cfg.Symlinks,
\* updateGitignore, SaveState), in cleanCmd.RunE (the loop over the managed
\* paths, removeEmptyDirs, SaveState) and in syncCmd.RunE
\* (updateGitignore, createLinks); updateGitignore reads .gitignore and
\* calls os.WriteFile, SaveState calls os.WriteFile, and os.WriteFile
\* opens the file and then writes it.
pcAfter(pc) ==
    CASE pc = "linking" -> "ignoring"
      [] pc = "ignoring" -> "ignoreOpen"
      [] pc = "ignoreOpen" -> "ignoreWrite"
      [] pc = "ignoreWrite" -> "saving"
      [] pc = "cleaning" -> "pruning"
      [] pc = "pruning" -> "saving"
      [] pc = "saving" -> "writing"
      [] pc = "resetting" -> "resetOpen"
      [] pc = "resetOpen" -> "resetWrite"
      [] pc = "resetWrite" -> "loading"
      [] OTHER -> "idle"

\* The places within the loop over cfg.Symlinks.
LinkPcs ==
    {"linking", "walking", "mkdir", "stat", "remove", "link", "copy",
     "chmod"}

\* What a step leaves: the record of the process, the working directory
\* and State.ManagedFiles.
stepOf(w, fs, files) == [w |-> w, fs |-> fs, files |-> files]

\* The command returns with the error.
stopped(w, err) == [w EXCEPT !.pc = "idle", !.err = err]

\* The head of the loop over cfg.Symlinks: past the last mapping the loop
\* ends; otherwise os.Stat(from) decides between the walk and createLink.
loopHead(w, fs, files, c) ==
    IF w.i > Len(c.symlinks)
    THEN stepOf([w EXCEPT !.pc = pcAfter("linking")], fs, files)
    ELSE With(Join(Upstream, patternOf(c.symlinks[w.i])), LAMBDA from :
         With(Stat(fs, from), LAMBDA info :
            IF info.err # "none"
            THEN stepOf(stopped(w, "source does not exist"), fs, files)
            ELSE IF info.kind = "dir"
                 THEN stepOf([w EXCEPT
                                 !.pc = "walking", !.from = from,
                                 !.base = targetBaseOf(c.symlinks[w.i]),
                                 !.agenda = <<from>>], fs, files)
            ELSE stepOf([w EXCEPT
                            !.pc = "mkdir", !.agenda = <<>>, !.src = from,
                            !.dst = Join(Overlay,
                                         targetBaseOf(c.symlinks[w.i]))],
                        fs, files)))

\* filepath.Walk at the next path it visits (os.Lstat): a directory is
\* listed and its names are visited before the rest, anything else goes
\* to createLink; with nothing left to visit the mapping is done.
walkNext(w, fs, files) ==
    IF w.agenda = <<>>
    THEN stepOf([w EXCEPT !.pc = "linking", !.i = @ + 1], fs, files)
    ELSE With(Head(w.agenda), LAMBDA path :
         With(Lstat(fs, path), LAMBDA info :
            IF info.err # "none"
               \/ (info.kind = "dir" /\ ~ReadDir(fs, path).ok)
            THEN stepOf(stopped(w, "failed to process directory"), fs, files)
            ELSE IF skipsDirectory(info)
                 THEN stepOf([w EXCEPT !.agenda = readDirNames(fs, path)
                                                     \o Tail(w.agenda)],
                             fs, files)
            ELSE With(Rel(w.from, path), LAMBDA r :
                    IF r.err
                    THEN stepOf(stopped(w, "failed to get relative path"),
                                fs, files)
                    ELSE stepOf([w EXCEPT
                                    !.pc = "mkdir", !.agenda = Tail(@),
                                    !.src = path,
                                    !.dst = Join3(Overlay, w.base, r.rel)],
                                fs, files))))

\* createLink: validatePath, then os.MkdirAll(parentDir), one os.Mkdir a
\* step.
createLinkMkdir(w, fs, files) ==
    IF validatePath(Overlay, validatedTarget(w.dst)) # "ok"
    THEN stepOf(stopped(w, "invalid target path"), fs, files)
    ELSE With(mkdirNext(fs, Dir(w.dst)), LAMBDA md :
            IF ~md.ok
            THEN stepOf(stopped(w, "failed to create directory"), fs, files)
            ELSE IF md.done THEN stepOf([w EXCEPT !.pc = "stat"], fs, files)
            ELSE stepOf(w, md.fs, files))

\* createLink: os.Stat(dst) and the test of force.
createLinkStat(w, fs, files, c) ==
    IF ~Exists(fs, w.dst) THEN stepOf([w EXCEPT !.pc = "link"], fs, files)
    ELSE IF ~c.force
         THEN stepOf(stopped(w, "target already exists"), fs, files)
    ELSE stepOf([w EXCEPT !.pc = "remove"], fs, files)

\* createLink: os.Remove(dst).
createLinkRemove(w, fs, files, locked) ==
    With(Remove(fs, locked, w.dst), LAMBDA rm :
        IF ~rm.ok
        THEN stepOf(stopped(w, "failed to remove existing target"),
                    fs, files)
        ELSE stepOf([w EXCEPT !.pc = "link"], rm.fs, files))

\* The link is made: createdLinks and the State entry, and the walk goes on.
linked(w, fs, files, linkMode) ==
    With(Track([fs |-> fs, files |-> files, created |-> w.created,
                err |-> ""], fs, w.src, w.dst, linkMode), LAMBDA t :
        stepOf([w EXCEPT !.pc = "walking", !.created = t.created,
                         !.fd = NoFd],
               t.fs, t.files))

\* createLink: os.Symlink or os.Link, or the first part of copyFile.
createLinkLink(w, fs, files, c) ==
    IF HasSuffixGitignore(w.dst) \/ c.linkMode = "copy"
    THEN With(copyCreate(fs, w.src, w.dst), LAMBDA cp :
            IF cp.ok
            THEN stepOf([w EXCEPT !.pc = "copy", !.fd = cp.fd], cp.fs, files)
            ELSE stepOf(stopped(w, IF HasSuffixGitignore(w.dst)
                                   THEN "failed to copy .gitignore"
                                   ELSE "failed to copy"), cp.fs, files))
    ELSE IF c.linkMode = "symlink"
    THEN With(Rel(Dir(w.dst), w.src), LAMBDA r :
            IF r.err
            THEN stepOf(stopped(w, "failed to create relative path"),
                        fs, files)
            ELSE With(Symlink(fs, r.rel, w.dst), LAMBDA l :
                    IF l.ok THEN linked(w, l.fs, files, c.linkMode)
                    ELSE stepOf(stopped(w, "failed to create symlink"),
                                l.fs, files)))
    ELSE IF c.linkMode = "hardlink"
    THEN With(Link(fs, w.src, w.dst), LAMBDA l :
            IF l.ok THEN linked(w, l.fs, files, c.linkMode)
            ELSE stepOf(stopped(w, "failed to create hardlink"),
                        l.fs, files))
    ELSE stepOf(stopped(w, "unsupported link mode"), fs, files)

\* createLink in copyFile: the copy into the file that is open.
createLinkCopy(w, fs, files) ==
    With(copyFill(fs, w.src, w.fd), LAMBDA cp :
        IF cp.ok THEN stepOf([w EXCEPT !.pc = "chmod"], cp.fs, files)
        ELSE stepOf(stopped(w, IF HasSuffixGitignore(w.dst)
                               THEN "failed to copy .gitignore"
                               ELSE "failed to copy"), cp.fs, files))

\* createLink in copyFile: os.Stat(src) and os.Chmod(dst); the link is
\* tracked as a copy.
createLinkChmod(w, fs, files, c) ==
    With(copyChmod(fs, w.src, w.dst), LAMBDA cp :
        IF cp.ok
        THEN linked(w, cp.fs, files,
                    IF HasSuffixGitignore(w.dst) THEN "copy" ELSE c.linkMode)
        ELSE stepOf(stopped(w, IF HasSuffixGitignore(w.dst)
                               THEN "failed to copy .gitignore"
                               ELSE "failed to copy"), cp.fs, files))

\* One step of the loop over cfg.Symlinks.
linkStep(w, fs, files, locked, c) ==
    CASE w.pc = "linking" -> loopHead(w, fs, files, c)
      [] w.pc = "walking" -> walkNext(w, fs, files)
      [] w.pc = "mkdir" -> createLinkMkdir(w, fs, files)
      [] w.pc = "stat" -> createLinkStat(w, fs, files, c)
      [] w.pc = "remove" -> createLinkRemove(w, fs, files, locked)
      [] w.pc = "link" -> createLinkLink(w, fs, files, c)
      [] w.pc = "copy" -> createLinkCopy(w, fs, files)
      [] w.pc = "chmod" -> createLinkChmod(w, fs, files, c)

\* The head of the loop of cleanCmd over the managed paths: past the last
\* path the final cleanup empties the State; a fully managed directory
\* goes to os.RemoveAll; any other path is dealt with in this step.
cleanHead(w, fs, files, locked) ==
    IF w.i > Len(w.paths)
    THEN stepOf([w EXCEPT !.pc = pcAfter("cleaning")], fs,
                dropAll(files, w.paths, 1))
    ELSE With(Join(Overlay, w.paths[w.i]), LAMBDA fullPath :
            IF Lstat(fs, fullPath).kind = "dir"
               /\ isFullyManaged(fs, fullPath, w.managed)
            THEN stepOf([w EXCEPT !.pc = "removing", !.dst = fullPath,
                                  !.agenda = removeAllBegin(fs, fullPath)],
                        fs, files)
            ELSE With(cleanOne([fs |-> fs, files |-> files,
                                removed |-> w.removed, err |-> ""],
                               locked, w.paths[w.i], w.managed), LAMBDA r :
                    IF r.err # "" THEN stepOf(stopped(w, r.err), r.fs, r.files)
                    ELSE stepOf([w EXCEPT !.i = @ + 1,
                                          !.removed = r.removed],
                                r.fs, r.files)))

\* os.RemoveAll of a fully managed directory, one call a step; when it
\* has returned the path is counted, unless it returned an error, and
\* leaves the State.  The result is the set of what the step may leave.
cleanRemoveAll(w, fs, files, locked) ==
    IF w.agenda = <<>>
    THEN {stepOf([w EXCEPT !.pc = "cleaning", !.i = @ + 1,
                           !.removed = IF removeAllOk(fs, w.dst)
                                       THEN @ + 1 ELSE @],
                 fs, RemoveManagedFile(files, w.paths[w.i]))}
    ELSE {stepOf([w EXCEPT !.agenda = rm.agenda], rm.fs, files) :
             rm \in removeAllNext(fs, locked, w.agenda)}

\* One step of the loop of cleanCmd: the set of what it may leave.
cleanStep(w, fs, files, locked) ==
    IF w.pc = "cleaning" THEN {cleanHead(w, fs, files, locked)}
    ELSE cleanRemoveAll(w, fs, files, locked)

\* The upstream checkout as SyncUpstream leaves it: the tracked files of
\* the pinned commit are there as the commit has them (Force).
checkout(fs, tree) ==
    [q \in DOMAIN fs
           \cup {t \in DOMAIN tree : t = Upstream \/ Under(t, Upstream)}
        |-> IF q \in DOMAIN tree /\ (q = Upstream \/ Under(q, Upstream))
            THEN tree[q] ELSE fs[q]]

\* How the git part of a command ends: everything worked, the upstream
\* repository could not be cloned or fetched, or the pinned ref was not
\* found in it.
GitOutcomes == {"ok", "unreachable", "no ref"}

\* A command that ended before CreateLinks was called.
endedEarly(fs, sf, gi, err) ==
    [fs |-> fs, stateFile |-> sf, gitignore |-> gi, err |-> err,
     created |-> <<>>, files |-> <<>>]

\* syncCmd.RunE: SyncUpstream in the checkout that is there, then
\* updateGitignore(cfg, nil), then createLinks.  The result is that of
\* CreateLinks.
syncRun(fs, sf, gi, locked, tree, symlinks, linkMode, force, git) ==
    IF git # "ok" \/ Stat(fs, Upstream).kind # "dir"
    THEN endedEarly(fs, sf, gi, "failed to sync upstream")
    ELSE CreateLinks(checkout(fs, tree), sf, updateGitignore(gi, <<>>),
                     locked, symlinks, linkMode, force)

\* initCmd.RunE: os.RemoveAll(".upstream"), os.MkdirAll("overlay"),
\* AddUpstreamSubmodule (the clone), SyncUpstream, then CreateLinks.
initRun(fs, sf, gi, locked, tree, symlinks, linkMode, force, git) ==
    With(RemoveAll(fs, locked, Upstream), LAMBDA rm :
        IF ~rm.ok
        THEN endedEarly(rm.fs, sf, gi,
                        "failed to remove existing .upstream directory")
        ELSE With(MkdirAll(rm.fs, Overlay), LAMBDA md :
                IF ~md.ok
                THEN endedEarly(md.fs, sf, gi,
                                "failed to create overlay directory")
                ELSE IF git = "unreachable"
                THEN endedEarly(md.fs, sf, gi,
                                "failed to add upstream submodule")
                ELSE IF git = "no ref"
                THEN endedEarly(checkout(md.fs, tree), sf, gi,
                                "failed to sync upstream")
                ELSE CreateLinks(checkout(md.fs, tree), sf, gi, locked,
                                 symlinks, linkMode, force)))

\* ------------------------------------------------------------------ state
VARIABLES
    fs,         \* the working directory: .upstream, overlay and what is around
    stateFile,  \* .git-overlay.state.json
    gitignore,  \* .gitignore of the working directory
    locked,     \* objects that cannot be unlinked (immutable, no permission)
    last,       \* the last command run and what it returned
    runs,       \* how many times CreateLinks has run
    edits,      \* how many times the user has changed the overlay directory
    vBase,      \* validatePath: the base argument
    vPath,      \* validatePath: the path argument
    vOut,       \* validatePath: "none" before the call, then its result
    cfg,        \* the configuration and flags CreateLinks is re-invoked with
    state       \* a State in memory: its ManagedFiles

vars == <<fs, stateFile, gitignore, locked, last, runs, edits, vBase, vPath,
          vOut, cfg, state>>

\* The upstream checkout: f, d/f and d/g.
SourceTree ==
    (Dot :> DirObj) @@ (Upstream :> DirObj)
    @@ (<<".upstream", "f">> :> UserFile)
    @@ (<<".upstream", "d">> :> DirObj)
    @@ (<<".upstream", "d", "f">> :> UserFile)
    @@ (<<".upstream", "d", "g">> :> UserFile)

\* The working directory with the upstream checkout in place and an empty
\* overlay directory: initCmd.RunE before it calls CreateLinks.
InitialTree == (Overlay :> DirObj) @@ SourceTree

\* The paths beneath the overlay directory.
TargetPaths(tree) == {q \in DOMAIN tree : Under(q, Overlay)}

\* The kinds of the objects beneath the overlay directory.
TargetKinds(tree) == [q \in TargetPaths(tree) |-> tree[q].kind]

\* The paths the State file lists.
ManagedPaths(sf) == pathsOf(LoadState(sf))

\* last: the command (op), its error ("" for success), what clean counted
\* (removed), the force flag and the links created by CreateLinks, the
\* overlay directory and the paths of the State file when the command
\* started (pre, managed), and of the command run right before it: its
\* name, its error and the overlay directory when it started (prevOp,
\* prevErr, prevPre).
Idle ==
    [op |-> "none", err |-> "", removed |-> 0, force |-> FALSE,
     created |-> <<>>, pre |-> <<>>, managed |-> {},
     prevOp |-> "none", prevErr |-> "", prevPre |-> <<>>]

\* The mappings a configuration may hold.
StringSpec(path) == [String |-> path, From |-> path, To |-> path]
FromTo(from, to) == [String |-> EmptyStr, From |-> from, To |-> to]

\* The flags and the configuration of a run: cfg.Symlinks, --link-mode
\* and --force.
RunConfig(symlinks, linkMode, force) ==
    [symlinks |-> symlinks, linkMode |-> linkMode, force |-> force]

NoConfig == RunConfig(<<>>, "symlink", FALSE)

\* The configurations CreateLinks is run with.
Configs ==
    { <<StringSpec(<<"f">>)>>,
      <<StringSpec(<<"d">>)>>,
      <<StringSpec(<<"f">>), StringSpec(<<"m">>)>>,
      <<FromTo(<<"f">>, <<"..", "x">>)>>,
      <<FromTo(<<"f">>, <<"..", "..", "x">>)>> }

LinkModes == {"symlink", "copy"}

\* What the user may put into the overlay directory between commands.
UserObjects ==
    { [path |-> <<"overlay", "d">>, obj |-> UserFile],
      [path |-> <<"overlay", "d", "c">>, obj |-> UserFile],
      [path |-> <<"overlay", "e", "e">>, obj |-> DirObj],
      [path |-> <<"overlay", "f">>, obj |-> UserFile],
      [path |-> <<"overlay", "f", "c">>, obj |-> UserFile] }

UserRemovable == { Overlay, <<"overlay", "d">>, <<"overlay", "f">> }

Lockable == { <<"overlay", "d", "g">> }

Init ==
    /\ fs = InitialTree
    /\ stateFile = NoStateFile
    /\ gitignore = NoGitignore
    /\ locked = {}
    /\ last = Idle
    /\ runs = 0
    /\ edits = 0
    /\ vBase = Overlay
    /\ vPath = EmptyStr
    /\ vOut = "none"
    /\ cfg = NoConfig
    /\ state = <<>>

\* ---------------------------------------------------------------- actions
\* A run of CreateLinks, as the tests call it.
Materialize ==
    /\ runs < MaxRuns
    /\ runs' = runs + 1
    /\ \E symlinks \in Configs, linkMode \in LinkModes, force \in BOOLEAN :
        \E r \in {CreateLinks(fs, stateFile, gitignore, locked,
                              symlinks, linkMode, force)} :
           /\ fs' = r.fs
           /\ stateFile' = r.stateFile
           /\ gitignore' = r.gitignore
           /\ last' = [op |-> "materialize", err |-> r.err, removed |-> 0,
                       force |-> force, created |-> r.created,
                       pre |-> TargetKinds(fs),
                       managed |-> ManagedPaths(stateFile),
                       prevOp |-> last.op, prevErr |-> last.err,
                       prevPre |-> last.pre]
    /\ UNCHANGED <<locked, edits, vBase, vPath, vOut, cfg, state>>

\* git-overlay sync.
Sync ==
    /\ runs < MaxRuns
    /\ runs' = runs + 1
    /\ \E symlinks \in Configs, linkMode \in LinkModes, force \in BOOLEAN,
          git \in GitOutcomes :
        \E r \in {syncRun(fs, stateFile, gitignore, locked, SourceTree,
                          symlinks, linkMode, force, git)} :
           /\ fs' = r.fs
           /\ stateFile' = r.stateFile
           /\ gitignore' = r.gitignore
           /\ last' = [op |-> "sync", err |-> r.err, removed |-> 0,
                       force |-> force, created |-> r.created,
                       pre |-> TargetKinds(fs),
                       managed |-> ManagedPaths(stateFile),
                       prevOp |-> last.op, prevErr |-> last.err,
                       prevPre |-> last.pre]
    /\ UNCHANGED <<locked, edits, vBase, vPath, vOut, cfg, state>>

\* git-overlay init.
InitCmd ==
    /\ runs < MaxRuns
    /\ runs' = runs + 1
    /\ \E symlinks \in Configs, linkMode \in LinkModes, force \in BOOLEAN,
          git \in GitOutcomes :
        \E r \in {initRun(fs, stateFile, gitignore, locked, SourceTree,
                          symlinks, linkMode, force, git)} :
           /\ fs' = r.fs
           /\ stateFile' = r.stateFile
           /\ gitignore' = r.gitignore
           /\ last' = [op |-> "init", err |-> r.err, removed |-> 0,
                       force |-> force, created |-> r.created,
                       pre |-> TargetKinds(fs),
                       managed |-> ManagedPaths(stateFile),
                       prevOp |-> last.op, prevErr |-> last.err,
                       prevPre |-> last.pre]
    /\ UNCHANGED <<locked, edits, vBase, vPath, vOut, cfg, state>>

\* git-overlay clean.
Clean_ ==
    \E r \in {cleanRun(fs, stateFile, locked)} :
       /\ fs' = r.fs
       /\ stateFile' = r.stateFile
       /\ last' = [op |-> "clean", err |-> r.err, removed |-> r.removed,
                   force |-> last.force, created |-> last.created,
                   pre |-> TargetKinds(fs),
                   managed |-> ManagedPaths(stateFile),
                   prevOp |-> last.op, prevErr |-> last.err,
                   prevPre |-> last.pre]
       /\ UNCHANGED <<gitignore, locked, runs, edits, vBase, vPath, vOut, cfg, state>>

\* The user adds a file, a directory or a link of their own (mkdir -p).
UserCreate ==
    /\ edits < MaxEdits
    /\ edits' = edits + 1
    /\ \E u \in UserObjects :
        \E md \in {MkdirAll(fs, Dir(u.path))} :
           /\ md.ok
           /\ IsNotExist(Lstat(md.fs, u.path))
           /\ fs' = Put(md.fs, u.path, u.obj)
    /\ last' = Idle
    /\ UNCHANGED <<stateFile, gitignore, locked, runs, vBase, vPath, vOut, cfg, state>>

\* The user removes something (rm -rf).
UserRemove ==
    /\ edits < MaxEdits
    /\ edits' = edits + 1
    /\ \E p \in UserRemovable :
        /\ p \in DOMAIN fs
        /\ \E r \in {RemoveAll(fs, locked, p)} :
              /\ r.ok
              /\ fs' = r.fs
    /\ last' = Idle
    /\ UNCHANGED <<stateFile, gitignore, locked, runs, vBase, vPath, vOut, cfg, state>>

\* An object becomes impossible to unlink, or possible again.
UserLock ==
    /\ edits < MaxEdits
    /\ edits' = edits + 1
    /\ \E p \in Lockable :
        /\ p \in DOMAIN fs \/ p \in locked
        /\ locked' = IF p \in locked THEN locked \ {p} ELSE locked \cup {p}
    /\ last' = Idle
    /\ UNCHANGED <<fs, stateFile, gitignore, runs, vBase, vPath, vOut, cfg, state>>

Next ==
    \/ Materialize \/ Sync \/ InitCmd \/ Clean_
    \/ UserCreate \/ UserRemove \/ UserLock

Spec == Init /\ [][Next]_vars

\* ------------------------------------------------ validatePath on its own
\* The segments the paths handed to validatePath are made of.
Segments == {"", ".", "..", "f", "..f", "f.."}

ValidatePaths == UNION {[1..n -> Segments] : n \in 1..MaxPathLen}

ValidateBases == {Overlay, <<"overlay", "d">>}

InitValidate ==
    /\ fs = InitialTree
    /\ stateFile = NoStateFile
    /\ gitignore = NoGitignore
    /\ locked = {}
    /\ last = Idle
    /\ runs = 0
    /\ edits = 0
    /\ vBase \in ValidateBases
    /\ vPath \in ValidatePaths
    /\ vOut = "none"
    /\ cfg = NoConfig
    /\ state = <<>>

Validate ==
    /\ vOut = "none"
    /\ vOut' = validatePath(vBase, vPath)
    /\ UNCHANGED <<fs, stateFile, gitignore, locked, last, runs, edits,
                   vBase, vPath, cfg, state>>

SpecValidate == InitValidate /\ [][Validate]_vars

\* ------------------------------------------- the State store on its own
\* The paths, link modes and sources AddManagedFile is called with.
RegistryPaths == {<<"f">>, <<"d", "f">>, <<"d", "g">>}
RegistryModes == {"symlink", "copy"}
RegistrySources == {<<"f">>, <<"d", "f">>}

\* State.AddManagedFile on the State in memory.
Upsert ==
    \E path \in RegistryPaths, linkMode \in RegistryModes,
       source \in RegistrySources :
        /\ state' = AddManagedFile(state, path, linkMode, source)
        /\ last' = [op |-> "upsert", path |-> path, linkMode |-> linkMode,
                    source |-> source, before |-> state]
        /\ UNCHANGED <<fs, stateFile, gitignore, locked, runs, edits,
                       vBase, vPath, vOut, cfg>>

\* State.RemoveManagedFile on the State in memory.
RemoveEntry ==
    \E path \in RegistryPaths :
        /\ state' = RemoveManagedFile(state, path)
        /\ last' = [op |-> "remove", path |-> path, linkMode |-> "",
                    source |-> EmptyStr, before |-> state]
        /\ UNCHANGED <<fs, stateFile, gitignore, locked, runs, edits,
                       vBase, vPath, vOut, cfg>>

SpecRegistry == Init /\ [][Upsert \/ RemoveEntry]_vars

\* ---------------------------------------------- CreateLinks, re-invoked
\* Re-invocations of CreateLinks after the first in one behaviour.
MaxRetries == 1

\* The upstream checkout of this specification: SourceTree with an ignore
\* file and a sub-directory in d, and x, a symlink to that sub-directory.
LinkSourceTree ==
    (<<".upstream", "d", ".gitignore">> :> UserFile)
    @@ (<<".upstream", "d", "e">> :> DirObj)
    @@ (<<".upstream", "d", "e", "c">> :> UserFile)
    @@ (<<".upstream", "x">> :> [kind |-> "symlink", data |-> <<"d", "e">>])
    @@ SourceTree

\* The source whose absence makes a run fail, and that a repair adds.
MissingSource == <<".upstream", "m">>

LinkTo(text) == [kind |-> "symlink", data |-> text]

\* What the overlay directory and the State file hold before the first
\* run: nothing, or an object at the target path overlay/f or
\* overlay/d/f (a file, a directory, a symlink left by an earlier run, a
\* symlink whose referent is gone), or a State file that does not parse.
LinkStarts ==
    { [fs |-> (Overlay :> DirObj) @@ LinkSourceTree,
       stateFile |-> NoStateFile],
      [fs |-> (<<"overlay", "f">> :> UserFile)
              @@ (Overlay :> DirObj) @@ LinkSourceTree,
       stateFile |-> NoStateFile],
      [fs |-> (<<"overlay", "f">> :> LinkTo(<<"..", ".upstream", "f">>))
              @@ (Overlay :> DirObj) @@ LinkSourceTree,
       stateFile |-> SaveState(AddManagedFile(<<>>, <<"f">>, "symlink",
                                              <<"f">>), FALSE)],
      [fs |-> (<<"overlay", "f">> :> LinkTo(<<"nowhere">>))
              @@ (Overlay :> DirObj) @@ LinkSourceTree,
       stateFile |-> NoStateFile],
      [fs |-> (<<"overlay", "f">> :> DirObj)
              @@ (Overlay :> DirObj) @@ LinkSourceTree,
       stateFile |-> NoStateFile],
      [fs |-> (<<"overlay", "f">> :> DirObj)
              @@ (<<"overlay", "f", "c">> :> UserFile)
              @@ (Overlay :> DirObj) @@ LinkSourceTree,
       stateFile |-> NoStateFile],
      [fs |-> (<<"overlay", "d">> :> DirObj)
              @@ (<<"overlay", "d", "f">> :> UserFile)
              @@ (Overlay :> DirObj) @@ LinkSourceTree,
       stateFile |-> NoStateFile],
      [fs |-> (Overlay :> DirObj) @@ LinkSourceTree,
       stateFile |-> CorruptStateFile],
      [fs |-> (<<"overlay", "f">> :> UserFile)
              @@ (Overlay :> DirObj) @@ LinkSourceTree,
       stateFile |-> CorruptStateFile] }

\* The mappings of cfg.Symlinks: the string form, from with to, from
\* without to (To is then the empty string), two mappings with one
\* target path (file after file, file after directory), and a source that
\* is a symlink to a directory.
LinkSymlinks ==
    { <<StringSpec(<<"f">>), FromTo(<<"d", "f">>, <<"f">>)>>,
      <<StringSpec(<<"d">>), FromTo(<<"f">>, <<"d", "f">>)>>,
      <<StringSpec(<<"f">>)>>,
      <<StringSpec(<<"d">>)>>,
      <<StringSpec(<<"x">>)>>,
      <<StringSpec(<<"d", ".gitignore">>)>>,
      <<StringSpec(<<"f">>), StringSpec(<<"m">>)>>,
      <<FromTo(<<"d">>, <<"e">>)>>,
      <<FromTo(<<"d">>, EmptyStr)>>,
      <<FromTo(<<"f">>, EmptyStr)>> }

\* The values of --link-mode: the three createLink knows, and another.
AllLinkModes == {"symlink", "hardlink", "copy", "invalid"}

InitLinks ==
    /\ \E start \in LinkStarts :
          /\ fs = start.fs
          /\ stateFile = start.stateFile
    /\ gitignore = NoGitignore
    /\ locked = {}
    /\ last = Idle
    /\ runs = 0
    /\ edits = 0
    /\ vBase = Overlay
    /\ vPath = EmptyStr
    /\ vOut = "none"
    /\ cfg \in {RunConfig(symlinks, linkMode, force) :
                   symlinks \in LinkSymlinks, linkMode \in AllLinkModes,
                   force \in BOOLEAN}
    /\ state = <<>>

\* A run of CreateLinks with the configuration and flags of cfg.  `before`,
\* `loaded` and `ignored` are the working directory, the State file and
\* .gitignore when the run started.
Invoke ==
    /\ runs <= MaxRetries
    /\ runs' = runs + 1
    /\ \E r \in {CreateLinks(fs, stateFile, gitignore, locked,
                             cfg.symlinks, cfg.linkMode, cfg.force)} :
          /\ fs' = r.fs
          /\ stateFile' = r.stateFile
          /\ gitignore' = r.gitignore
          /\ last' = [op |-> "materialize", err |-> r.err, removed |-> 0,
                      force |-> cfg.force, created |-> r.created,
                      pre |-> TargetKinds(fs),
                      managed |-> ManagedPaths(stateFile),
                      prevOp |-> last.op, prevErr |-> last.err,
                      prevPre |-> last.pre,
                      before |-> fs, loaded |-> stateFile,
                      ignored |-> gitignore]
    /\ UNCHANGED <<locked, edits, vBase, vPath, vOut, cfg, state>>

\* git-overlay sync with the configuration and flags of cfg.
InvokeSync ==
    /\ runs <= MaxRetries
    /\ runs' = runs + 1
    /\ \E git \in GitOutcomes :
        \E r \in {syncRun(fs, stateFile, gitignore, locked, LinkSourceTree,
                          cfg.symlinks, cfg.linkMode, cfg.force, git)} :
          /\ fs' = r.fs
          /\ stateFile' = r.stateFile
          /\ gitignore' = r.gitignore
          /\ last' = [op |-> "sync", err |-> r.err, removed |-> 0,
                      force |-> cfg.force, created |-> r.created,
                      pre |-> TargetKinds(fs),
                      managed |-> ManagedPaths(stateFile),
                      prevOp |-> last.op, prevErr |-> last.err,
                      prevPre |-> last.pre,
                      before |-> fs, loaded |-> stateFile,
                      ignored |-> gitignore]
    /\ UNCHANGED <<locked, edits, vBase, vPath, vOut, cfg, state>>

\* After a run that failed for a missing source, the source appears (the
\* upstream checkout is updated); `last` keeps the record of the failed run.
Repair ==
    /\ last.op = "materialize"
    /\ last.err = "source does not exist"
    /\ MissingSource \notin DOMAIN fs
    /\ fs' = Put(fs, MissingSource, UserFile)
    /\ last' = [last EXCEPT !.op = "repair"]
    /\ UNCHANGED <<stateFile, gitignore, locked, runs, edits, vBase, vPath,
                   vOut, cfg, state>>

SpecLinks == InitLinks /\ [][Invoke \/ InvokeSync \/ Repair \/ Clean_]_vars

\* ---------------------------------- the queries on the State on their own
\* The paths of the States queried: files and directories, up to three
\* levels deep.
QueryPaths ==
    { <<"f">>, <<"e">>, <<"d">>, <<"d", "f">>, <<"d", "g">>, <<"d", "e">>,
      <<"d", "e", "c">> }

\* The directories GetManagedFilesInDir is asked for.
QueryDirs == { <<"d">>, <<"d", "e">>, <<"e">>, <<"f">> }

\* A State holding the paths, in lexical order.
StateOf(paths) ==
    [k \in 1..Cardinality(paths) |->
        [Path |-> SortBy(paths, StrLess)[k], LinkMode |-> "symlink",
         Source |-> SortBy(paths, StrLess)[k]]]

InitQuery ==
    /\ fs = InitialTree
    /\ stateFile = NoStateFile
    /\ gitignore = NoGitignore
    /\ locked = {}
    /\ last = Idle
    /\ runs = 0
    /\ edits = 0
    /\ vBase = Overlay
    /\ vPath = EmptyStr
    /\ vOut = "none"
    /\ cfg = NoConfig
    /\ state \in {StateOf(paths) : paths \in SUBSET QueryPaths}

\* State.GetManagedFilesInDir(dir).
Query ==
    \E dir \in QueryDirs :
        /\ last' = [op |-> "query", dir |-> dir,
                    found |-> GetManagedFilesInDir(state, dir)]
        /\ UNCHANGED <<fs, stateFile, gitignore, locked, runs, edits, vBase,
                       vPath, vOut, cfg, state>>

\* The order in which cleanCmd.RunE walks the managed paths of the State.
SortManaged ==
    /\ last' = [op |-> "sort", paths |-> sortedPaths(pathsOf(state))]
    /\ UNCHANGED <<fs, stateFile, gitignore, locked, runs, edits, vBase,
                   vPath, vOut, cfg, state>>

SpecQuery == InitQuery /\ [][Query \/ SortManaged]_vars

\* ------------------------------------------------- clean on its own
\* What the overlay directory may hold before clean: files and
\* directories up to three levels deep.
CleanObjects ==
    { [path |-> <<"overlay", "f">>, obj |-> UserFile],
      [path |-> <<"overlay", "d">>, obj |-> DirObj],
      [path |-> <<"overlay", "d", "f">>, obj |-> UserFile],
      [path |-> <<"overlay", "d", "g">>, obj |-> UserFile],
      [path |-> <<"overlay", "d", "e">>, obj |-> DirObj],
      [path |-> <<"overlay", "d", "e", "c">>, obj |-> UserFile] }

\* The paths the State file may list: files and directories.
CleanManaged ==
    { <<"f">>, <<"d">>, <<"d", "f">>, <<"d", "e">>, <<"d", "e", "c">> }

CleanLockable == { <<"overlay", "d", "f">> }

\* The tree that holds the objects next to the upstream checkout.
TreeOf(objects) ==
    [q \in {o.path : o \in objects} |->
        (CHOOSE o \in objects : o.path = q).obj] @@ InitialTree

InitClean ==
    /\ fs \in {TreeOf(objects) : objects \in
                  {os \in SUBSET CleanObjects :
                      \A o \in os :
                         \/ Front(o.path) = Overlay
                         \/ \E d \in os : d.path = Front(o.path)
                                            /\ d.obj = DirObj}}
    /\ stateFile \in {SaveState(StateOf(paths), FALSE) :
                          paths \in SUBSET CleanManaged}
    /\ gitignore = NoGitignore
    /\ locked \in SUBSET CleanLockable
    /\ locked \subseteq DOMAIN fs
    /\ last = Idle
    /\ runs = 0
    /\ edits = 0
    /\ vBase = Overlay
    /\ vPath = EmptyStr
    /\ vOut = "none"
    /\ cfg = NoConfig
    /\ state = <<>>

SpecClean == InitClean /\ [][Clean_]_vars

\* ------------------------------------ clean on a State file of any content
\* The working directory before clean: the overlay directory with or
\* without a file and a directory, and a file of the user next to it.
AnyObjects ==
    { [path |-> <<"overlay", "f">>, obj |-> UserFile],
      [path |-> <<"overlay", "d">>, obj |-> DirObj],
      [path |-> <<"x">>, obj |-> UserFile] }

\* The paths a State file may list, as json.Unmarshal accepts any string:
\* a managed file, the overlay directory itself, and paths that lead out
\* of it.
AnyManaged ==
    { <<"f">>, <<"d">>, Dot, <<"..", "x">>, <<"..", ".upstream", "f">>,
      <<"..", ".upstream", "d", "f">> }

InitCleanAny ==
    /\ fs \in {TreeOf(objects) : objects \in SUBSET AnyObjects}
    /\ stateFile \in {SaveState(StateOf(paths), FALSE) :
                          paths \in SUBSET AnyManaged}
    /\ gitignore = NoGitignore
    /\ locked = {}
    /\ last = Idle
    /\ runs = 0
    /\ edits = 0
    /\ vBase = Overlay
    /\ vPath = EmptyStr
    /\ vOut = "none"
    /\ cfg = NoConfig
    /\ state = <<>>

SpecCleanAny == InitCleanAny /\ [][Clean_]_vars

\* ------------------------------------------ updateGitignore on its own
\* .gitignore before the first refresh: absent, empty, lines of the user
\* with and without a final newline, blank and repeated lines, and a
\* managed block of an earlier version among the lines of the user.
IgnoreStarts ==
    { NoGitignore,
      [exists |-> TRUE, lines |-> <<EmptyStr>>],
      [exists |-> TRUE, lines |-> << <<"c">> >>],
      [exists |-> TRUE, lines |-> << <<"c">>, EmptyStr >>],
      [exists |-> TRUE, lines |-> << <<"g">>, <<"c">>, EmptyStr >>],
      [exists |-> TRUE, lines |-> << <<"c">>, EmptyStr, <<"c">>, <<"g">> >>],
      [exists |-> TRUE, lines |-> << <<"c">>, EmptyStr, EmptyStr >>],
      [exists |-> TRUE,
       lines |-> << <<"c">>, BeginMarker, <<"overlay", "f">>, EndMarker,
                    <<"g">> >>],
      [exists |-> TRUE,
       lines |-> << BeginMarker, EndMarker, <<"g">>, <<"c">>, EmptyStr >>] }

\* The createdLinks updateGitignore is called with.
IgnoreLinks ==
    { <<>>,
      << <<"overlay", "f">> >>,
      << <<"overlay", "d", "f">>, <<"overlay", "d", "g">> >>,
      << <<"overlay", "f">>, <<"overlay", "f">> >> }

InitIgnore ==
    /\ fs = InitialTree
    /\ stateFile = NoStateFile
    /\ gitignore \in IgnoreStarts
    /\ locked = {}
    /\ last = Idle
    /\ runs = 0
    /\ edits = 0
    /\ vBase = Overlay
    /\ vPath = EmptyStr
    /\ vOut = "none"
    /\ cfg = NoConfig
    /\ state = <<>>

\* updateGitignore(cfg, createdLinks); `before` is the file it found.
Refresh ==
    \E createdLinks \in IgnoreLinks :
        /\ gitignore' = updateGitignore(gitignore, createdLinks)
        /\ last' = [op |-> "refresh", links |-> createdLinks,
                    before |-> gitignore]
        /\ UNCHANGED <<fs, stateFile, locked, runs, edits, vBase, vPath,
                       vOut, cfg, state>>

SpecIgnore == InitIgnore /\ [][Refresh]_vars

\* ------------------------------------ the commands run call by call
\* The overlay directory of TestCleanCommand: a directory with files and a
\* sub-directory.
StepTree ==
    (<<"overlay", "d">> :> DirObj)
    @@ (<<"overlay", "d", "f">> :> UserFile)
    @@ (<<"overlay", "d", "g">> :> UserFile)
    @@ (<<"overlay", "d", "e">> :> DirObj)
    @@ (<<"overlay", "d", "e", "c">> :> UserFile)
    @@ (Overlay :> DirObj) @@ LinkSourceTree

\* The starts of LinkStarts, and two with a State file that lists
\* directories: the one TestCleanCommand writes, with the directories
\* next to the files in them, and one that names the directory d by the
\* path d/e/.., which clean takes before the files in d.
StepStarts ==
    LinkStarts
    \cup { [fs |-> StepTree,
            stateFile |-> SaveState(StateOf({<<"d">>, <<"d", "f">>,
                                             <<"d", "g">>, <<"d", "e">>,
                                             <<"d", "e", "c">>}), FALSE)],
           [fs |-> StepTree,
            stateFile |-> SaveState(StateOf({<<"d", "e", "..">>,
                                             <<"d", "f">>, <<"d", "g">>,
                                             <<"d", "e">>,
                                             <<"d", "e", "c">>}), FALSE)] }

\* The objects that cannot be unlinked.
StepLockable == { <<"overlay", "d", "f">> }

InitSteps ==
    /\ \E start \in StepStarts :
          /\ fs = start.fs
          /\ stateFile = start.stateFile
    /\ gitignore = NoGitignore
    /\ locked \in SUBSET StepLockable
    /\ locked \subseteq DOMAIN fs
    /\ last = Resting
    /\ runs = 0
    /\ edits = 0
    /\ vBase = Overlay
    /\ vPath = EmptyStr
    /\ vOut = "none"
    /\ cfg \in {RunConfig(symlinks, linkMode, force) :
                   symlinks \in LinkSymlinks, linkMode \in LinkModes,
                   force \in BOOLEAN}
    /\ state = <<>>

\* syncCmd.RunE up to updateGitignore: the repository is opened and
\* SyncUpstream fetches and checks out the pinned commit, or fails.
BeginSync ==
    /\ last.pc = "idle"
    /\ runs <= MaxRetries
    /\ runs' = runs + 1
    /\ \E git \in GitOutcomes :
          IF git = "ok" /\ Stat(fs, Upstream).kind = "dir"
          THEN /\ fs' = checkout(fs, LinkSourceTree)
               /\ last' = [Resting EXCEPT !.op = "sync", !.pc = "resetting"]
          ELSE /\ fs' = fs
               /\ last' = [Resting EXCEPT !.op = "sync",
                                          !.err = "failed to sync upstream"]
    /\ UNCHANGED <<stateFile, gitignore, locked, edits, vBase, vPath, vOut,
                   cfg, state>>

\* CreateLinks up to its loop, run from the command line or by syncCmd:
\* the flags, then config.LoadState.
BeginLinks ==
    /\ \/ last.pc = "idle" /\ runs <= MaxRetries /\ runs' = runs + 1
       \/ last.pc = "loading" /\ runs' = runs
    /\ IF LoadStateFails(stateFile)
       THEN /\ last' = [Resting EXCEPT !.op = "materialize",
                                       !.err = "failed to load state"]
            /\ state' = state
       ELSE /\ last' = [Resting EXCEPT !.op = "materialize",
                                       !.pc = "linking", !.i = 1,
                                       !.loaded = TRUE,
                                       !.wasNil = LoadsNil(stateFile)]
            /\ state' = LoadState(stateFile)
    /\ UNCHANGED <<fs, stateFile, gitignore, locked, edits, vBase, vPath,
                   vOut, cfg>>

\* One step of the loop over cfg.Symlinks.
LinkStep ==
    /\ last.pc \in LinkPcs
    /\ \E r \in {linkStep(last, fs, state, locked, cfg)} :
          /\ fs' = r.fs
          /\ state' = r.files
          /\ last' = r.w
    /\ UNCHANGED <<stateFile, gitignore, locked, runs, edits, vBase, vPath,
                   vOut, cfg>>

\* updateGitignore, of CreateLinks with createdLinks and of syncCmd with
\* nil: os.Stat and os.ReadFile, and the lines to write.
IgnoreStep ==
    /\ last.pc \in {"ignoring", "resetting"}
    /\ last' = [last EXCEPT
                   !.pc = pcAfter(last.pc),
                   !.pending = updateGitignore(gitignore, last.created).lines]
    /\ UNCHANGED <<fs, stateFile, gitignore, locked, runs, edits, vBase,
                   vPath, vOut, cfg, state>>

\* updateGitignore: os.WriteFile opens .gitignore, truncating it.
IgnoreOpen ==
    /\ last.pc \in {"ignoreOpen", "resetOpen"}
    /\ gitignore' = truncatedGitignore(gitignore)
    /\ last' = [last EXCEPT !.pc = pcAfter(last.pc)]
    /\ UNCHANGED <<fs, stateFile, locked, runs, edits, vBase, vPath, vOut,
                   cfg, state>>

\* updateGitignore: os.WriteFile writes the lines and returns.
IgnoreWrite ==
    /\ last.pc \in {"ignoreWrite", "resetWrite"}
    /\ gitignore' = writeGitignore(gitignore, last.pending)
    /\ last' = [last EXCEPT !.pc = pcAfter(last.pc)]
    /\ UNCHANGED <<fs, stateFile, locked, runs, edits, vBase, vPath, vOut,
                   cfg, state>>

\* SaveState: os.WriteFile opens .git-overlay.state.json, truncating it.
SaveOpen ==
    /\ last.pc = "saving"
    /\ stateFile' = WriteFileOpen(stateFile)
    /\ last' = [last EXCEPT !.pc = pcAfter("saving")]
    /\ UNCHANGED <<fs, gitignore, locked, runs, edits, vBase, vPath, vOut,
                   cfg, state>>

\* SaveState: os.WriteFile writes the marshalled State and returns.
SaveWrite ==
    /\ last.pc = "writing"
    /\ stateFile' = WriteFileData(stateFile, state, last.wasNil)
    /\ last' = [last EXCEPT !.pc = pcAfter("writing"), !.saved = TRUE]
    /\ UNCHANGED <<fs, gitignore, locked, runs, edits, vBase, vPath, vOut,
                   cfg, state>>

\* cleanCmd.RunE up to its loop: the test of the overlay directory,
\* config.LoadState, and the sort of the managed paths.
BeginClean ==
    /\ last.pc = "idle"
    /\ runs <= MaxRetries
    /\ runs' = runs + 1
    /\ IF IsNotExist(Stat(fs, Overlay))
       THEN /\ last' = [Resting EXCEPT !.op = "clean",
                           !.err = "overlay directory does not exist"]
            /\ state' = state
       ELSE IF LoadStateFails(stateFile)
       THEN /\ last' = [Resting EXCEPT !.op = "clean",
                                       !.err = "failed to load state"]
            /\ state' = state
       ELSE /\ last' = [Resting EXCEPT
                           !.op = "clean", !.pc = "cleaning", !.i = 1,
                           !.paths = sortedPaths(pathsOf(LoadState(stateFile))),
                           !.managed = pathsOf(LoadState(stateFile)),
                           !.loaded = TRUE,
                           !.wasNil = LoadsNil(stateFile)]
            /\ state' = LoadState(stateFile)
    /\ UNCHANGED <<fs, stateFile, gitignore, locked, edits, vBase, vPath,
                   vOut, cfg>>

\* One step of the loop over the managed paths.
CleanPathStep ==
    /\ last.pc \in {"cleaning", "removing"}
    /\ \E r \in cleanStep(last, fs, state, locked) :
          /\ fs' = r.fs
          /\ state' = r.files
          /\ last' = r.w
    /\ UNCHANGED <<stateFile, gitignore, locked, runs, edits, vBase, vPath,
                   vOut, cfg>>

\* removeEmptyDirs("overlay"), one os.Remove a step.
PruneStep ==
    /\ last.pc = "pruning"
    /\ \E r \in {pruneNext(fs, locked, Overlay)} :
          /\ fs' = r.fs
          /\ last' = IF ~r.ok
                     THEN stopped(last,
                                  "failed to clean up empty directories")
                     ELSE IF r.done
                          THEN [last EXCEPT !.pc = pcAfter("pruning")]
                     ELSE last
    /\ UNCHANGED <<stateFile, gitignore, locked, runs, edits, vBase, vPath,
                   vOut, cfg, state>>

\* The process is killed, or the machine loses power, between two of its
\* steps.
Interrupt ==
    /\ last.pc # "idle"
    /\ last' = [last EXCEPT !.pc = "idle", !.err = "killed"]
    /\ UNCHANGED <<fs, stateFile, gitignore, locked, runs, edits, vBase,
                   vPath, vOut, cfg, state>>

NextSteps ==
    \/ BeginSync \/ BeginLinks \/ LinkStep \/ IgnoreStep \/ IgnoreOpen
    \/ IgnoreWrite \/ SaveOpen \/ SaveWrite
    \/ BeginClean \/ CleanPathStep \/ PruneStep \/ Interrupt

SpecSteps == InitSteps /\ [][NextSteps]_vars

\* ------------------------------------------ two runs of CreateLinks at once
\* Two processes run CreateLinks in one working directory, each once and
\* call by call.  cfg, last and state are pairs: the configuration and
\* flags of each process, its record, and its State in memory; `alone`
\* tells that the other process was not running when this one started.
Procs == {1, 2}

Other(p) == 3 - p

NotStarted == [Resting EXCEPT !.op = "materialize"] @@ [alone |-> TRUE]

\* A process that is at no statement any more has returned.
returned(w) == IF w.pc = "idle" THEN [w EXCEPT !.pc = "done"] ELSE w

\* The other process as a step leaves it: when the step unlinked the file
\* its copyFile has open, the descriptor names no object of the working
\* directory any more.
unlinkedFor(w, before, after) ==
    IF w.fd \in DOMAIN before /\ w.fd \notin DOMAIN after
    THEN [w EXCEPT !.fd = NoFd] ELSE w

\* cfg.Symlinks of the two processes.
RaceSymlinks ==
    { <<StringSpec(<<"f">>)>>,
      <<StringSpec(<<"d">>)>>,
      <<StringSpec(<<"f">>), StringSpec(<<"m">>)>> }

InitRace ==
    /\ fs = (Overlay :> DirObj) @@ LinkSourceTree
    /\ stateFile = NoStateFile
    /\ gitignore = NoGitignore
    /\ locked = {}
    /\ last = <<NotStarted, NotStarted>>
    /\ runs = 0
    /\ edits = 0
    /\ vBase = Overlay
    /\ vPath = EmptyStr
    /\ vOut = "none"
    /\ cfg \in {<<RunConfig(s1, "symlink", force),
                   RunConfig(s2, "symlink", force)>> :
                   s1 \in RaceSymlinks, s2 \in RaceSymlinks,
                   force \in BOOLEAN}
    /\ state = << <<>>, <<>> >>

\* A process starts: the flags, then config.LoadState.
RaceBegin ==
    \E p \in Procs :
        /\ last[p].pc = "idle"
        /\ IF LoadStateFails(stateFile)
           THEN /\ last' = [last EXCEPT ![p] =
                               [NotStarted EXCEPT
                                   !.pc = "done",
                                   !.err = "failed to load state",
                                   !.alone = last[Other(p)].pc
                                                \in {"idle", "done"}]]
                /\ state' = state
           ELSE /\ last' = [last EXCEPT ![p] =
                               [NotStarted EXCEPT
                                   !.pc = "linking", !.i = 1,
                                   !.loaded = TRUE,
                                   !.wasNil = LoadsNil(stateFile),
                                   !.alone = last[Other(p)].pc
                                                \in {"idle", "done"}]]
                /\ state' = [state EXCEPT ![p] = LoadState(stateFile)]
        /\ UNCHANGED <<fs, stateFile, gitignore, locked, runs, edits, vBase,
                       vPath, vOut, cfg>>

\* One step of the loop over cfg.Symlinks of a process.
RaceLink ==
    \E p \in Procs :
        /\ last[p].pc \in LinkPcs
        /\ \E r \in {linkStep(last[p], fs, state[p], locked, cfg[p])} :
              /\ fs' = r.fs
              /\ state' = [state EXCEPT ![p] = r.files]
              /\ last' = [last EXCEPT
                             ![p] = returned(r.w),
                             ![Other(p)] = unlinkedFor(@, fs, r.fs)]
        /\ UNCHANGED <<stateFile, gitignore, locked, runs, edits, vBase,
                       vPath, vOut, cfg>>

\* updateGitignore of a process: os.Stat and os.ReadFile, and the lines
\* to write.
RaceIgnore ==
    \E p \in Procs :
        /\ last[p].pc = "ignoring"
        /\ last' = [last EXCEPT
                       ![p].pc = pcAfter("ignoring"),
                       ![p].pending =
                           updateGitignore(gitignore, last[p].created).lines]
        /\ UNCHANGED <<fs, stateFile, gitignore, locked, runs, edits, vBase,
                       vPath, vOut, cfg, state>>

\* updateGitignore of a process: os.WriteFile opens .gitignore,
\* truncating it.
RaceIgnoreOpen ==
    \E p \in Procs :
        /\ last[p].pc = "ignoreOpen"
        /\ gitignore' = truncatedGitignore(gitignore)
        /\ last' = [last EXCEPT ![p].pc = pcAfter("ignoreOpen")]
        /\ UNCHANGED <<fs, stateFile, locked, runs, edits, vBase, vPath,
                       vOut, cfg, state>>

\* updateGitignore of a process: os.WriteFile writes the lines at the
\* start of the file and returns.
RaceIgnoreWrite ==
    \E p \in Procs :
        /\ last[p].pc = "ignoreWrite"
        /\ gitignore' = writeGitignore(gitignore, last[p].pending)
        /\ last' = [last EXCEPT ![p].pc = pcAfter("ignoreWrite")]
        /\ UNCHANGED <<fs, stateFile, locked, runs, edits, vBase, vPath,
                       vOut, cfg, state>>

\* SaveState of a process: os.WriteFile opens the file, truncating it.
RaceSaveOpen ==
    \E p \in Procs :
        /\ last[p].pc = "saving"
        /\ stateFile' = WriteFileOpen(stateFile)
        /\ last' = [last EXCEPT ![p].pc = pcAfter("saving")]
        /\ UNCHANGED <<fs, gitignore, locked, runs, edits, vBase, vPath,
                       vOut, cfg, state>>

\* SaveState of a process: os.WriteFile writes its State at the start of
\* the file and returns.
RaceSaveWrite ==
    \E p \in Procs :
        /\ last[p].pc = "writing"
        /\ stateFile' = WriteFileData(stateFile, state[p], last[p].wasNil)
        /\ last' = [last EXCEPT ![p] = returned([@ EXCEPT
                                                    !.pc = pcAfter("writing"),
                                                    !.saved = TRUE])]
        /\ UNCHANGED <<fs, gitignore, locked, runs, edits, vBase, vPath,
                       vOut, cfg, state>>

SpecRace ==
    InitRace /\ [][RaceBegin \/ RaceLink \/ RaceIgnore \/ RaceIgnoreOpen
                    \/ RaceIgnoreWrite \/ RaceSaveOpen \/ RaceSaveWrite]_vars

\* ------------------------------------------------------------- properties
\* An object of the overlay directory whose path the State file did not
\* list when the last command started.
Unmanaged(q) == Tail(q) \notin last.managed

\* The non-directories (custom content) that were in the overlay directory
\* when the last command started and were not managed.
CustomFiles ==
    {q \in DOMAIN last.pre : last.pre[q] # "dir" /\ Unmanaged(q)}

\* The directories of the overlay directory above q.
AncestorsOf(q) == {SubSeq(q, 1, n) : n \in 2..(Len(q) - 1)}

\* The directories of a tree of kinds that hold nothing.
EmptyDirsOf(kinds) ==
    {q \in DOMAIN kinds :
        kinds[q] = "dir" /\ ~\E r \in DOMAIN kinds : Front(r) = q}

\* C1: clean never removes custom content: every non-directory object of
\* the overlay directory whose path is not a managed path is still there
\* after clean, unchanged in kind, and so is every directory above it.
CleanKeepsCustomContent ==
    last.op = "clean" =>
        \A q \in CustomFiles :
            /\ q \in DOMAIN fs
            /\ fs[q].kind = last.pre[q]
            /\ \A a \in AncestorsOf(q) : a \in DOMAIN fs /\ fs[a].kind = "dir"

\* C1 happens: clean removed a managed object from a directory and left
\* the custom file next to it, and the directory, in place.
CleanKeptCustomNextToManaged ==
    /\ last.op = "clean"
    /\ last.err = ""
    /\ last.removed > 0
    /\ \E q \in CustomFiles :
          /\ Len(q) > 2
          /\ q \in DOMAIN fs
          /\ \E p \in DOMAIN last.pre :
                Front(p) = Front(q) /\ ~Unmanaged(p) /\ p \notin DOMAIN fs

\* C2 as stated: every directory of the overlay directory that is not a
\* managed path and existed before clean, whatever it contains, still
\* exists after clean.
CleanKeepsEveryUnmanagedDir ==
    last.op = "clean" =>
        \A q \in DOMAIN last.pre :
            (last.pre[q] = "dir" /\ Unmanaged(q)) => q \in DOMAIN fs

\* C2, amended: every directory of the overlay directory that is not a
\* managed path and holds, at any depth, a non-directory object that is
\* not a managed path still exists after clean.
CleanKeepsUnmanagedDirWithCustomContent ==
    last.op = "clean" =>
        \A q \in DOMAIN last.pre :
            ( /\ last.pre[q] = "dir"
              /\ Unmanaged(q)
              /\ \E r \in CustomFiles : Under(r, q) )
            => (q \in DOMAIN fs /\ fs[q].kind = "dir")

\* C2 happens: clean kept an unmanaged directory with a custom file in it
\* and pruned another unmanaged directory, which held none.
CleanKeptOneDirPrunedAnother ==
    /\ last.op = "clean"
    /\ last.err = ""
    /\ \E q \in DOMAIN last.pre :
          /\ last.pre[q] = "dir" /\ Unmanaged(q)
          /\ \E r \in CustomFiles : Under(r, q)
          /\ q \in DOMAIN fs
    /\ \E q \in DOMAIN last.pre :
          last.pre[q] = "dir" /\ Unmanaged(q) /\ q \notin DOMAIN fs

\* A clean that ran right after a CreateLinks run with --force.
CleanAfterForcedMaterialize ==
    last.op = "clean" /\ last.prevOp = "materialize" /\ last.force

\* C3 as stated: CreateLinks with --force followed by clean leaves the
\* overlay directory with the set of paths it had before CreateLinks, and
\* the State with no managed file.
RoundTripAlways ==
    CleanAfterForcedMaterialize =>
        /\ TargetPaths(fs) = DOMAIN last.prevPre
        /\ LoadState(stateFile) = <<>>

\* C3 on the starts where replacing and pruning cannot show: the overlay
\* directory held before CreateLinks no empty directory and no object at
\* the path of a link CreateLinks created.  CreateLinks with --force
\* followed by clean then leaves the overlay directory with the set of
\* paths it had before CreateLinks, and the State with no managed file.
RoundTripOfFreshTargets ==
    ( /\ CleanAfterForcedMaterialize
      /\ EmptyDirsOf(last.prevPre) = {}
      /\ \A i \in 1..Len(last.created) :
             last.created[i] \notin DOMAIN last.prevPre )
    => /\ TargetPaths(fs) = DOMAIN last.prevPre
       /\ LoadState(stateFile) = <<>>

\* C3 where the code keeps it: on those starts, when CreateLinks returned
\* no error and every link it created lies inside the overlay directory,
\* the clean that follows succeeds, leaves the overlay directory with the
\* set of paths it had before CreateLinks, and leaves the State with no
\* managed file.
RoundTripOfFreshLinks ==
    ( /\ CleanAfterForcedMaterialize
      /\ last.prevErr = ""
      /\ \A i \in 1..Len(last.created) : Under(last.created[i], Overlay)
      /\ EmptyDirsOf(last.prevPre) = {}
      /\ \A i \in 1..Len(last.created) :
             last.created[i] \notin DOMAIN last.prevPre )
    => /\ last.err = ""
       /\ TargetPaths(fs) = DOMAIN last.prevPre
       /\ LoadState(stateFile) = <<>>

\* C3 happens: links were created next to custom content, in a directory
\* CreateLinks had to make, and clean has run.
RoundTripAroundCustomContent ==
    /\ CleanAfterForcedMaterialize
    /\ last.prevErr = ""
    /\ Len(last.created) > 1
    /\ \A i \in 1..Len(last.created) : Under(last.created[i], Overlay)
    /\ DOMAIN last.prevPre # {}
    /\ EmptyDirsOf(last.prevPre) = {}
    /\ \A i \in 1..Len(last.created) :
           last.created[i] \notin DOMAIN last.prevPre
    /\ \E i \in 1..Len(last.created) :
          Front(last.created[i]) \notin DOMAIN last.prevPre

\* C3 fails: CreateLinks with --force linked overlay/f and returned an
\* error, and after the clean that followed the link is still there.
RoundTripBrokenByFailedRun ==
    /\ CleanAfterForcedMaterialize
    /\ last.prevErr # ""
    /\ last.err = ""
    /\ last.removed = 0
    /\ DOMAIN last.prevPre = {}
    /\ TargetPaths(fs) # {}

\* C4: a clean that follows a successful clean succeeds, reports 0 removed
\* objects, leaves the overlay directory as the first clean left it, and
\* leaves the State with no managed file.
SecondCleanChangesNothing ==
    (last.op = "clean" /\ last.prevOp = "clean" /\ last.prevErr = "") =>
        /\ last.err = ""
        /\ last.removed = 0
        /\ TargetKinds(fs) = last.pre
        /\ LoadState(stateFile) = <<>>

\* C4 happens: the first clean changed the overlay directory, left custom
\* content in it, and a second clean has run.
SecondCleanAfterRemoval ==
    /\ last.op = "clean" /\ last.prevOp = "clean" /\ last.prevErr = ""
    /\ DOMAIN last.prevPre # DOMAIN last.pre
    /\ DOMAIN last.pre # {}

\* C5 as stated: every object CreateLinks creates lies inside the overlay
\* directory.
LinksInsideOverlay ==
    last.op = "materialize" =>
        \A i \in 1..Len(last.created) : Under(last.created[i], Overlay)

\* C8: after a clean that succeeds the State file is written and lists no
\* managed file.
CleanEmptiesState ==
    (last.op = "clean" /\ last.err = "") =>
        stateFile.exists /\ stateFile.files = <<>>

\* C8 happens: clean succeeded although a managed path is still in the
\* overlay directory (a managed directory with custom content, or an
\* object whose deletion failed).
CleanLeftManagedPathInPlace ==
    /\ last.op = "clean"
    /\ last.err = ""
    /\ \E p \in last.managed : Overlay \o p \in DOMAIN fs
    /\ \E q \in locked : q \in DOMAIN fs /\ ~Unmanaged(q)

\* C9: after a clean that succeeds the overlay directory exists and no
\* directory beneath it is empty.
CleanLeavesNoEmptyDir ==
    (last.op = "clean" /\ last.err = "") =>
        /\ Overlay \in DOMAIN fs
        /\ fs[Overlay].kind = "dir"
        /\ EmptyDirsOf(TargetKinds(fs)) = {}

\* C9 happens: clean removed a chain of directories, one inside the other.
CleanPrunedChain ==
    /\ last.op = "clean"
    /\ last.err = ""
    /\ Overlay \in DOMAIN fs
    /\ \E q, r \in DOMAIN last.pre :
          /\ last.pre[q] = "dir" /\ last.pre[r] = "dir"
          /\ Front(r) = q
          /\ q \notin DOMAIN fs /\ r \notin DOMAIN fs

\* C10 as stated: when CreateLinks fails, every link it created before the
\* failure has its entry in the saved State file.
PartialSuccessSaved ==
    (last.op = "materialize" /\ last.err # "") =>
        \A i \in 1..Len(last.created) :
            TrimPrefix(last.created[i], "overlay") \in ManagedPaths(stateFile)

\* validatePath's notion of containment, by prefix: base + "/" + path,
\* cleaned, is base or begins with base + "/".
Inside(base, path) ==
    \/ Clean(base \o path) = Clean(base)
    \/ Under(Clean(base \o path), Clean(base))

\* C6: validatePath fails for every absolute path and for every relative
\* path that, cleaned, leaves base.
ValidateRejectsOutside ==
    (vOut # "none" /\ (IsAbs(vPath) \/ ~Inside(vBase, vPath)))
        => vOut # "ok"

\* C6 happens: a path whose first segment is a name inside base, and which
\* leaves base further on, was rejected.
ValidateRejectedLateEscape ==
    /\ vOut = "escape"
    /\ vPath = <<"f", "..", "..", "f">>
    /\ ~Inside(vBase, vPath)

\* C7 as stated: validatePath succeeds for every relative path that,
\* cleaned, stays inside base.
ValidateAcceptsInside ==
    (vOut # "none" /\ ~IsAbs(vPath) /\ Inside(vBase, vPath))
        => vOut = "ok"

\* C19: when the overlay directory does not exist, clean returns "overlay
\* directory does not exist" and changes neither the working directory nor
\* the State file.
CleanNeedsOverlay ==
    [][ (Clean_ /\ IsNotExist(Stat(fs, Overlay))) =>
            /\ last'.err = "overlay directory does not exist"
            /\ fs' = fs
            /\ stateFile' = stateFile
            /\ gitignore' = gitignore ]_vars

\* C19 happens: clean was refused for the missing overlay directory while
\* the State file listed managed files.
CleanRefusedWithManagedFiles ==
    /\ last.op = "clean"
    /\ last.err = "overlay directory does not exist"
    /\ Overlay \notin DOMAIN fs
    /\ LoadState(stateFile) # <<>>

\* ------------------------------------------- properties of CreateLinks
\* The entries of a list of managed files that are for path.
EntriesFor(files, path) ==
    {i \in 1..Len(files) : files[i].Path = path}

\* A run of CreateLinks re-invoked after the failure of the run before it
\* was repaired (the missing source is there).
RetryAfterRepair ==
    last.op = "materialize" /\ last.prevOp = "repair"

\* The links the failed run left in the overlay directory: the
\* non-directories there when the retry started that were not there when
\* the failed run started.
LeftByFailedRun ==
    {q \in DOMAIN last.pre :
        last.pre[q] # "dir" /\ q \notin DOMAIN last.prevPre}

\* C11 as stated: when CreateLinks failed after creating links and is
\* re-invoked with the same configuration and flags once the missing
\* source is there, every link the failed run created has its entry in the
\* State file, and the re-invocation succeeds.
RetryCompletes ==
    (RetryAfterRepair /\ LeftByFailedRun # {}) =>
        /\ \A q \in LeftByFailedRun : Tail(q) \in last.managed
        /\ last.err = ""

\* The link modes the switch of createLink knows.
SupportedLinkModes == {"symlink", "hardlink", "copy"}

\* The source a mapping names.
SourceOf(link) == Join(Upstream, patternOf(link))

\* Every mapping of the configuration names a source that was there when
\* the last run started.
SourcesExisted ==
    \A k \in 1..Len(cfg.symlinks) :
        Stat(last.before, SourceOf(cfg.symlinks[k])).err = "none"

\* The links a mapping asks for in a tree: for a file its source and
\* target, for a directory the source and target of every file beneath it.
LinksOf(tree, link) ==
    With(SourceOf(link), LAMBDA from :
        IF Stat(tree, from).err # "none" THEN {}
        ELSE IF Stat(tree, from).kind = "dir"
        THEN {[src |-> q,
               dst |-> Join3(Overlay, targetBaseOf(link), Rel(from, q).rel)] :
                 q \in {p \in DOMAIN tree : Under(p, from)
                                            /\ tree[p].kind # "dir"}}
        ELSE {[src |-> from, dst |-> Join(Overlay, targetBaseOf(link))]})

\* The links the configuration asked for when the last run started.
Planned ==
    UNION {LinksOf(last.before, cfg.symlinks[k]) :
              k \in 1..Len(cfg.symlinks)}

\* The planned links whose target path held an object, of any kind, when
\* the last run started.
OnExistingTarget ==
    {l \in Planned : Lstat(last.before, l.dst).err = "none"}

\* A run of CreateLinks that loaded the State, with a link mode createLink
\* knows and mappings whose sources exist.
RegularRun ==
    /\ last.op = "materialize"
    /\ ~LoadStateFails(last.loaded)
    /\ cfg.linkMode \in SupportedLinkModes
    /\ SourcesExisted

\* C13 as stated: without --force, a run with a target path that already
\* holds an object fails with "target already exists" and leaves every
\* such object as it was.
ExistingTargetRefused ==
    (RegularRun /\ ~cfg.force /\ OnExistingTarget # {}) =>
        /\ last.err = "target already exists"
        /\ \A l \in OnExistingTarget :
              /\ l.dst \in DOMAIN fs
              /\ fs[l.dst] = last.before[l.dst]

\* The link mode createLink records for a target.
RecordedMode(dst) ==
    IF HasSuffixGitignore(dst) THEN "copy" ELSE cfg.linkMode

\* The object createLink makes for a link: a symlink with the relative
\* path to the source, or a file with the content of the source.
LinkObject(l) ==
    IF RecordedMode(l.dst) = "symlink"
    THEN [kind |-> "symlink", data |-> Rel(Dir(l.dst), l.src).rel]
    ELSE [kind |-> "file", data |-> l.src]

\* The planned links whose target path held a file or a symlink when the
\* last run started.
OnExistingFileOrLink ==
    {l \in OnExistingTarget :
        last.before[Lstat(last.before, l.dst).path].kind \in {"file", "symlink"}}

\* C14 as stated: with --force, a run whose target paths, where they hold
\* an object, hold a file or a symlink (dangling or not) succeeds, each
\* such path then holds the new link in the requested mode, and the State
\* file has exactly one entry for the path, with that mode.
ForcedTargetReplaced ==
    ( /\ RegularRun
      /\ cfg.force
      /\ OnExistingTarget # {}
      /\ OnExistingTarget = OnExistingFileOrLink ) =>
        /\ last.err = ""
        /\ \A l \in OnExistingFileOrLink :
              /\ l.dst \in DOMAIN fs
              /\ fs[l.dst] = LinkObject(l)
              /\ Cardinality(EntriesFor(LoadState(stateFile),
                                        TrimPrefix(l.dst, "overlay"))) = 1
              /\ \A i \in EntriesFor(LoadState(stateFile),
                                     TrimPrefix(l.dst, "overlay")) :
                    stateFile.files[i].LinkMode = RecordedMode(l.dst)

\* The links of a mapping that has a mapping before it with a link to the
\* same target path, and none after it.
LastOfColliding ==
    UNION {{l \in LinksOf(last.before, cfg.symlinks[k]) :
              /\ \E j \in 1..(k - 1) :
                    \E e \in LinksOf(last.before, cfg.symlinks[j]) :
                       e.dst = l.dst /\ e.src # l.src
              /\ \A j \in (k + 1)..Len(cfg.symlinks) :
                    \A e \in LinksOf(last.before, cfg.symlinks[j]) :
                       e.dst # l.dst} :
           k \in 1..Len(cfg.symlinks)}

\* C26: with --force, a run with two mappings for one target path (whose
\* target paths, where they hold an object, hold a file or a symlink)
\* succeeds, the path then holds the link of the later mapping, and the
\* State file has exactly one entry for it, with the later source.
LastMappingWins ==
    ( /\ RegularRun
      /\ cfg.force
      /\ LastOfColliding # {}
      /\ OnExistingTarget = OnExistingFileOrLink ) =>
        /\ last.err = ""
        /\ \A l \in LastOfColliding :
              /\ l.dst \in DOMAIN fs
              /\ fs[l.dst] = LinkObject(l)
              /\ Cardinality(EntriesFor(LoadState(stateFile),
                                        TrimPrefix(l.dst, "overlay"))) = 1
              /\ \A i \in EntriesFor(LoadState(stateFile),
                                     TrimPrefix(l.dst, "overlay")) :
                    stateFile.files[i].Source = TrimPrefix(l.src, ".upstream")

\* C27: with --force, a run of CreateLinks right after a run with the same
\* configuration and flags that succeeded succeeds as well and leaves the
\* working directory, the State file (entries and their order) and
\* .gitignore as the first run left them.
ForcedRerunChangesNothing ==
    ( /\ last.op = "materialize"
      /\ last.prevOp = "materialize"
      /\ last.prevErr = ""
      /\ cfg.force ) =>
        /\ last.err = ""
        /\ fs = last.before
        /\ stateFile = last.loaded
        /\ gitignore = last.ignored

\* C34: with --force, an object at a target path is removed only when its
\* replacement is made: after a run that failed, every target path that
\* held a file or a symlink when the run started holds that object still,
\* or the link that replaced it.
ForceNeverLosesTarget ==
    ( /\ last.op = "materialize"
      /\ ~LoadStateFails(last.loaded)
      /\ cfg.force
      /\ last.err # "" ) =>
        \A l \in OnExistingFileOrLink :
            /\ l.dst \in DOMAIN fs
            /\ \/ fs[l.dst] = last.before[l.dst]
               \/ fs[l.dst] = LinkObject(l)

\* The entries of the State file loaded by the last run whose path is not
\* a target of the mappings of the run.
StaleEntries ==
    {last.loaded.files[i] : i \in
        {k \in 1..Len(last.loaded.files) :
            last.loaded.files[k].Path
                \notin {TrimPrefix(l.dst, "overlay") : l \in Planned}}}

\* C32: a run of CreateLinks drops no entry it does not re-create: every
\* entry of the State file it loaded whose path is not a target of its
\* mappings is in the State file afterwards, with its link mode and source.
StaleEntriesKept ==
    (last.op = "materialize" /\ ~LoadStateFails(last.loaded)) =>
        \A e \in StaleEntries :
            \E j \in 1..Len(stateFile.files) : stateFile.files[j] = e

\* A run that succeeded saved its new entries after an entry of an earlier
\* configuration.
SavedNextToStaleEntry ==
    /\ last.op = "materialize"
    /\ last.err = ""
    /\ StaleEntries # {}
    /\ last.created # <<>>
    /\ Len(stateFile.files) > Len(last.loaded.files)

\* The single mapping of the configuration names a directory that was
\* there when the last run started.
DirectoryMapping ==
    /\ Len(cfg.symlinks) = 1
    /\ Stat(last.before, SourceOf(cfg.symlinks[1])).kind = "dir"

\* The files (non-directories) beneath the source directory of the single
\* mapping, each as its path relative to that directory.
LeafFiles ==
    With(SourceOf(cfg.symlinks[1]), LAMBDA from :
        {SubSeq(q, Len(from) + 1, Len(q)) :
            q \in {p \in DOMAIN last.before :
                      Under(p, from) /\ last.before[p].kind # "dir"}})

\* The entry the State must hold for a leaf file: the target of the
\* mapping joined with the relative path, the mode, and the pattern of the
\* mapping joined with the relative path.
LeafEntry(link, rel) ==
    [Path |-> Join(targetBaseOf(link), rel),
     LinkMode |-> RecordedMode(rel),
     Source |-> Join(patternOf(link), rel)]

\* The entries of a list of managed files, as a set.
EntrySet(files) == {files[i] : i \in 1..Len(files)}

\* C15 as stated: a run of CreateLinks that succeeds on an empty State for
\* one mapping whose source is a directory (os.Stat says so, the test of
\* CreateLinks) leaves in the State file exactly one entry per file
\* beneath the directory, and none for a directory: path is the target
\* joined with the file's path relative to the source directory, source
\* the file's path relative to .upstream.
DirectoryMappingLinksLeaves ==
    ( /\ last.op = "materialize"
      /\ last.err = ""
      /\ LoadState(last.loaded) = <<>>
      /\ DirectoryMapping ) =>
        /\ EntrySet(LoadState(stateFile))
              = {LeafEntry(cfg.symlinks[1], rel) : rel \in LeafFiles}
        /\ Len(LoadState(stateFile)) = Cardinality(LeafFiles)
        /\ \A i \in 1..Len(last.created) :
              /\ last.created[i] \in DOMAIN fs
              /\ fs[last.created[i]].kind # "dir"

\* A mapping that declares no target of its own: the string form, or
\* from without to.
NoTargetDeclared(link) == link.String # EmptyStr \/ link.To = EmptyStr

\* C16 as stated: after a run of CreateLinks that succeeds on an empty
\* State for one mapping that declares no target, every entry of the State
\* file has a path (relative to overlay) equal to its source (relative to
\* .upstream).
TargetDefaultsToSource ==
    ( /\ last.op = "materialize"
      /\ last.err = ""
      /\ LoadState(last.loaded) = <<>>
      /\ Len(cfg.symlinks) = 1
      /\ NoTargetDeclared(cfg.symlinks[1]) ) =>
        \A i \in 1..Len(LoadState(stateFile)) :
            /\ stateFile.files[i].Path = stateFile.files[i].Source
            /\ Overlay \o stateFile.files[i].Path \in DOMAIN fs

\* The links of the last run whose target name ends with ".gitignore".
IgnoreFileLinks ==
    {i \in 1..Len(last.created) : Last(last.created[i]) = ".gitignore"}

\* C17: whatever link mode is requested, a created link whose target name
\* ends with ".gitignore" is a regular file with the content of its source,
\* and when the run succeeds its entry in the State file has the link mode
\* "copy".
IgnoreFileIsCopied ==
    last.op = "materialize" =>
        \A i \in IgnoreFileLinks :
            /\ last.created[i] \in DOMAIN fs
            /\ fs[last.created[i]].kind = "file"
            /\ \E l \in Planned :
                  l.dst = last.created[i] /\ fs[l.dst].data = l.src
            /\ last.err = "" =>
                  \E e \in EntrySet(LoadState(stateFile)) :
                      /\ e.Path = TrimPrefix(last.created[i], "overlay")
                      /\ e.LinkMode = "copy"

\* C17 happens: a run in symlink mode made a symlink and, next to it, the
\* copy of an ignore file.
IgnoreFileCopiedAmongSymlinks ==
    /\ last.op = "materialize"
    /\ last.err = ""
    /\ cfg.linkMode = "symlink"
    /\ IgnoreFileLinks # {}
    /\ \E i \in 1..Len(last.created) :
          /\ last.created[i] \in DOMAIN fs
          /\ fs[last.created[i]].kind = "symlink"
    /\ \E e \in EntrySet(LoadState(stateFile)) : e.LinkMode = "symlink"
    /\ \E e \in EntrySet(LoadState(stateFile)) : e.LinkMode = "copy"

\* The non-directories of a tree beneath the overlay directory.
TargetObjects(tree) ==
    {q \in TargetPaths(tree) : tree[q].kind # "dir"}

\* C18 as stated: a run of CreateLinks with a link mode other than
\* symlink, hardlink and copy, for mappings that yield at least one file,
\* returns an error, creates no object in the overlay directory and adds no
\* entry to the State.
UnknownModeCreatesNothing ==
    ( /\ last.op = "materialize"
      /\ ~LoadStateFails(last.loaded)
      /\ cfg.linkMode \notin SupportedLinkModes
      /\ SourcesExisted
      /\ Planned # {} ) =>
        /\ last.err # ""
        /\ last.created = <<>>
        /\ TargetObjects(fs) \subseteq TargetObjects(last.before)
        /\ stateFile = last.loaded

\* C20: a run of CreateLinks or of clean that finds no State file starts
\* from the empty State (it does not fail to load, and a successful
\* CreateLinks saves the entries of the links it created and no other);
\* a run that finds a State file that does not parse returns "failed to
\* load state" and changes neither the working directory, nor the State
\* file, nor .gitignore.
LoadStateOutcomes ==
    [][ /\ ((Invoke \/ Clean_) /\ ~stateFile.exists) =>
              /\ last'.err # "failed to load state"
              /\ last'.managed = {}
              /\ (last'.op = "materialize" /\ last'.err = "") =>
                    pathsOf(LoadState(stateFile'))
                       = {TrimPrefix(last'.created[i], "overlay") :
                             i \in 1..Len(last'.created)}
        /\ ((Invoke \/ Clean_) /\ stateFile.exists /\ ~stateFile.json) =>
              /\ last'.err = "failed to load state"
              /\ fs' = fs
              /\ stateFile' = stateFile
              /\ gitignore' = gitignore ]_vars

\* C20 happens: CreateLinks with --force stopped at a State file that does
\* not parse, with an object at its target path that it would have
\* replaced.
RunStoppedAtCorruptState ==
    /\ last.op = "materialize"
    /\ last.err = "failed to load state"
    /\ cfg.force
    /\ cfg.symlinks = <<StringSpec(<<"f">>)>>
    /\ stateFile = CorruptStateFile
    /\ <<"overlay", "f">> \in DOMAIN fs

\* ------------------------------------------ properties of the State store
\* C12: in every State reached from the empty one by calls of
\* AddManagedFile and RemoveManagedFile no two entries have the same path,
\* and after AddManagedFile there is exactly one entry for its path, with
\* the link mode and the source of the call.
RegistryPathsUnique ==
    /\ \A i, j \in 1..Len(state) :
          state[i].Path = state[j].Path => i = j
    /\ last.op = "upsert" =>
          /\ Cardinality(EntriesFor(state, last.path)) = 1
          /\ \A i \in EntriesFor(state, last.path) :
                /\ state[i].LinkMode = last.linkMode
                /\ state[i].Source = last.source

\* C12 happens: AddManagedFile was called for a path that had an entry
\* with another link mode and another source, next to an entry for another
\* path.
UpsertReplacedEntry ==
    /\ last.op = "upsert"
    /\ Len(last.before) = 2
    /\ \E i \in EntriesFor(last.before, last.path) :
          /\ last.before[i].LinkMode # last.linkMode
          /\ last.before[i].Source # last.source
    /\ Len(state) = 2

\* The positions of the entries for other paths.
OthersAt(files, path) == {i \in 1..Len(files) : files[i].Path # path}

\* C25: RemoveManagedFile(path) leaves no entry for the path; the entries
\* for the other paths are all there, unchanged and in their order (so a
\* State without the path is unchanged); removing the path again changes
\* nothing.
RemoveIsFramed ==
    last.op = "remove" =>
        /\ EntriesFor(state, last.path) = {}
        /\ Len(state) = Cardinality(OthersAt(last.before, last.path))
        /\ \A i \in OthersAt(last.before, last.path) :
              state[Cardinality({j \in OthersAt(last.before, last.path) :
                                    j <= i})] = last.before[i]
        /\ (EntriesFor(last.before, last.path) = {} => state = last.before)
        /\ RemoveManagedFile(state, last.path) = state

\* The middle one of three entries was removed.
RemovedMiddleEntry ==
    /\ last.op = "remove"
    /\ Len(last.before) = 3
    /\ last.before[2].Path = last.path
    /\ state = <<last.before[1], last.before[3]>>

\* ------------------------------------------ properties of clean's count
\* The managed paths whose object was there when clean started, is gone
\* now, and was a file or a symlink or a directory with nothing unmanaged
\* beneath it.
CountedPaths ==
    {p \in last.managed :
        /\ Join(Overlay, p) \in DOMAIN last.pre
        /\ Join(Overlay, p) \notin DOMAIN fs
        /\ \/ last.pre[Join(Overlay, p)] # "dir"
           \/ \A r \in DOMAIN last.pre :
                 Under(r, Join(Overlay, p))
                     => TrimPrefix(r, "overlay") \in last.managed}

\* C29: the count of a clean that succeeded is the number of managed
\* paths whose object existed and was deleted as a managed path (a fully
\* managed directory is one of them); managed paths without an object and
\* directories that only the pruning removed are not counted.
RemovedCountExact ==
    (last.op = "clean" /\ last.err = "")
        => last.removed = Cardinality(CountedPaths)

\* A clean counted a fully managed directory, met a managed path without
\* an object, and pruned a directory that it did not count.
CountedDirNextToPrunedDir ==
    /\ last.op = "clean"
    /\ last.err = ""
    /\ \E p \in last.managed : Join(Overlay, p) \notin DOMAIN last.pre
    /\ \E p \in CountedPaths : last.pre[Join(Overlay, p)] = "dir"
    /\ \E q \in DOMAIN last.pre :
          /\ last.pre[q] = "dir"
          /\ q \notin DOMAIN fs
          /\ TrimPrefix(q, "overlay") \notin CountedPaths

\* ------------------------------------ properties of the statement order
\* C21: when no command is running, after a command that loaded the State
\* file (so found it absent or whole) has returned or was interrupted at
\* any point, the State file is absent or holds a complete State.
RegistryFileWhole ==
    (last.pc = "idle" /\ last.loaded)
        => (stateFile.exists => stateFile.json)

\* C30: a step of CreateLinks or clean changes the working directory or
\* .gitignore only after LoadState has returned and before SaveState has
\* begun to write, and changes the State file only within SaveState, after
\* the load: nothing is changed before the load or after the save.  (What
\* syncCmd does before it calls createLinks, the checkout and the reset of
\* the managed block, is no step of CreateLinks.)
LoadSaveBracket ==
    [][ (last.op # "sync" /\ last'.op # "sync") =>
        /\ (fs' # fs \/ gitignore' # gitignore)
              => /\ last.loaded
                 /\ ~last.saved
                 /\ last.pc \notin {"idle", "writing"}
        /\ stateFile' # stateFile
              => /\ last.loaded
                 /\ ~last.saved
                 /\ last.pc \in {"saving", "writing"}
        /\ (last'.saved /\ ~last.saved) => last'.pc = "idle" ]_vars

\* A run of CreateLinks made links, refreshed .gitignore, saved and returned.
SavedAfterLinking ==
    /\ last.op = "materialize"
    /\ last.pc = "idle"
    /\ last.loaded
    /\ last.saved
    /\ last.created # <<>>
    /\ gitignore.exists

\* --------------------------------------------- properties of .gitignore
\* The lines between a begin marker and an end marker.
BlockLines(lines) ==
    {lines[i] : i \in {k \in 1..Len(lines) :
        /\ \E b \in 1..(k - 1) : lines[b] = BeginMarker
        /\ \E e \in (k + 1)..Len(lines) : lines[e] = EndMarker}}

\* C22: after a run of CreateLinks that succeeded, the managed block of
\* .gitignore lists the target of every entry of the State file that run
\* saved, and nothing else (an entry's path is its target without the
\* prefix "overlay/").
BlockListsRegistry ==
    (last.op = "materialize" /\ last.err = "")
        => {TrimPrefix(l, "overlay") : l \in BlockLines(gitignore.lines)}
              = ManagedPaths(stateFile)

\* The positions of the lines that are neither markers nor inside a
\* block (the nearest marker above a line inside a block is a begin
\* marker), and those lines in their order.
OutsideAt(lines) ==
    {i \in 1..Len(lines) :
        /\ lines[i] \notin {BeginMarker, EndMarker}
        /\ \A b \in 1..(i - 1) :
              lines[b] = BeginMarker
                  => \E e \in (b + 1)..(i - 1) : lines[e] = EndMarker}

OutsideLines(lines) ==
    [k \in 1..Cardinality(OutsideAt(lines)) |->
        lines[CHOOSE i \in OutsideAt(lines) :
                 Cardinality({j \in OutsideAt(lines) : j < i}) = k - 1]]

MarkersAt(lines, marker) == {i \in 1..Len(lines) : lines[i] = marker}

\* C23: after a refresh .gitignore holds exactly one begin marker and one
\* end marker, the lines between them are the links of this refresh, and
\* the lines that lay outside the block of the file found are all there
\* in their order (the lines outside the block start with them).
RefreshKeepsUserLines ==
    last.op = "refresh" =>
        /\ Cardinality(MarkersAt(gitignore.lines, BeginMarker)) = 1
        /\ Cardinality(MarkersAt(gitignore.lines, EndMarker)) = 1
        /\ \E b \in MarkersAt(gitignore.lines, BeginMarker),
              e \in MarkersAt(gitignore.lines, EndMarker) :
              /\ b < e
              /\ SubSeq(gitignore.lines, b + 1, e - 1) = last.links
        /\ Len(OutsideLines(gitignore.lines))
              >= Len(OutsideLines(last.before.lines))
        /\ SubSeq(OutsideLines(gitignore.lines), 1,
                  Len(OutsideLines(last.before.lines)))
              = OutsideLines(last.before.lines)

\* A refresh found a block with other links between lines of the user.
RefreshReplacedBlockAmongUserLines ==
    /\ last.op = "refresh"
    /\ \E b \in MarkersAt(last.before.lines, BeginMarker),
          e \in MarkersAt(last.before.lines, EndMarker) :
          /\ 1 < b
          /\ b < e
          /\ e < Len(last.before.lines)
          /\ SubSeq(last.before.lines, b + 1, e - 1) # last.links
    /\ Len(OutsideLines(last.before.lines)) >= 2
    /\ last.links # <<>>

\* ------------------------------------ properties of the State queries
\* C24: GetManagedFilesInDir(dir) returns exactly the entries whose path
\* is dir or lies beneath dir, at any depth.
EntriesUnderAtAnyDepth ==
    last.op = "query" =>
        pathsOf(last.found)
            = {p \in pathsOf(state) : p = last.dir \/ Under(p, last.dir)}

\* C28: in the order clean walks the managed paths, a path comes before
\* each of its proper ancestors: the order holds every managed path once,
\* deeper paths first and, at one depth, the greater string first.
CleanOrderDescendantsFirst ==
    last.op = "sort" =>
        /\ Len(last.paths) = Cardinality(pathsOf(state))
        /\ {last.paths[i] : i \in 1..Len(last.paths)} = pathsOf(state)
        /\ \A i, j \in 1..Len(last.paths) :
              /\ Under(last.paths[i], last.paths[j]) => i < j
              /\ i < j =>
                    \/ Len(last.paths[i]) > Len(last.paths[j])
                    \/ /\ Len(last.paths[i]) = Len(last.paths[j])
                       /\ StrLess(last.paths[j], last.paths[i])

\* The order of a State that holds a file, its directory and the directory
\* above, next to paths that sort between them lexically.
CleanOrderOfNestedPaths ==
    /\ last.op = "sort"
    /\ {<<"d">>, <<"d", "e">>, <<"d", "e", "c">>, <<"e">>, <<"f">>}
          \subseteq pathsOf(state)

\* ------------------------------------------- properties of clean's reach
\* The objects outside the overlay directory, and the directory itself.
OutsideOverlay(tree) ==
    [q \in {r \in DOMAIN tree : ~Under(r, Overlay)} |-> tree[q]]

\* C33: a step of clean deletes nothing outside the overlay directory and
\* not the overlay directory itself: the upstream checkout and every other
\* object that is not beneath "overlay" are as they were, whatever paths
\* the State file lists.
CleanStaysInsideOverlay ==
    [][ Clean_ => OutsideOverlay(fs') = OutsideOverlay(fs) ]_vars

\* ------------------------------------------- properties of clean's loop
\* C35: clean never ends in a crash: it returns normally or with an error
\* of its own, whatever os.Lstat reports for a managed path.
CleanNeverPanics ==
    last.op = "clean" => last.err # "panic"

\* ------------------------------------- properties of concurrent runs
\* The links a process created that are in the working directory without
\* an entry in the State file.
LostEntries ==
    {l \in UNION {{[proc |-> p, dst |-> last[p].created[k]] :
                      k \in 1..Len(last[p].created)} : p \in Procs} :
        /\ l.dst \in DOMAIN fs
        /\ EntriesFor(stateFile.files, TrimPrefix(l.dst, "overlay")) = {}}

BothSucceeded ==
    \A p \in Procs : last[p].pc = "done" /\ last[p].err = ""

\* C31: when the two runs were serialized (each started while the other
\* had not started or had returned) and both succeeded, every link either
\* created has its entry in the State file; an entry can be missing only
\* after runs that overlapped.
NoLostEntryWhenSerialized ==
    (BothSucceeded /\ \A p \in Procs : last[p].alone)
        => LostEntries = {}

\* The lost update: both runs succeeded, they overlapped, and a link one
\* of them created has no entry in the State file.
LostUpdateWhenInterleaved ==
    /\ BothSucceeded
    /\ \E p \in Procs : ~last[p].alone
    /\ stateFile.json
    /\ LostEntries # {}

====
